---- MODULE Spec2Model ----
(***************************************************************************)
(* Customer-support chatbot: one chat turn of the refactored application   *)
(* (main_refactored.py with services/intent_classifier.py,                 *)
(* services/mcp_client.py, services/streaming.py,                          *)
(* services/langfuse_client.py) and the /auth endpoint.                    *)
(*                                                                         *)
(* Texts are TLA+ strings; TLC evaluates Len, \o and SubSeq on them, so    *)
(* a character of a text s is SubSeq(s, i, i).  The one non-ASCII          *)
(* character of the source (the shopping-cart sign that opens the          *)
(* ordering disclaimer) is written "*": one character for one character.   *)
(* Confidences are hundredths (0.7 is 70).                                 *)
(***************************************************************************)
EXTENDS Integers, Sequences, FiniteSets, TLC

VARIABLES
    streaming_service,  \* StreamingService fields: thresholds, max_display, truncation_enabled
    disconnected,       \* what request.is_disconnected() returns now
    s_pc,               \* position inside stream_response
    s_response,         \* stream_response argument: response
    s_intent,           \* stream_response argument: intent
    final_text,         \* response after truncation and footer
    mode,               \* pacing tier chosen: "char", "word", "line"
    items,              \* the characters / words / lines being iterated
    idx,                \* index of the next item of the loop
    out,                \* chunks yielded so far (the "data" fields)
    events              \* what stream_response did, in order: each disconnect poll
                        \* with its result, each content chunk, the sentinel

VARIABLES
    pc,                 \* position of event_generator
    customer,           \* path parameter of /chat/{customer}
    message,            \* query parameter
    langfuse_enabled,   \* LangfuseClient.enabled
    confidence_threshold, \* Config.INTENT_CONFIDENCE_THRESHOLD, in hundredths
    trace,              \* what create_trace returned
    llm,                \* what the LLM call of this turn did
    classify_raised,    \* classify_intent raised past its boundary
    intent_result,      \* what classify_intent returned
    intent,             \* locals of event_generator
    entities,
    confidence,
    response,
    mcp_result,         \* what execute_mcp_call returned, if it was called
    routed,             \* route_intent_to_mcp was invoked in this turn
    requests,           \* the requests sent to the tool endpoint, in order
    replies,            \* the tool endpoint's answers received, in order
    raised              \* the exception that left event_generator, if any

VARIABLES
    auth_request,       \* body of the last POST /auth
    auth_response       \* what authenticate returned for it

stream_vars == <<streaming_service, disconnected, s_pc, s_response, s_intent,
                 final_text, mode, items, idx, out, events>>

turn_vars == <<pc, customer, message, langfuse_enabled, confidence_threshold,
               trace, llm, classify_raised, intent_result, intent, entities,
               confidence, response, mcp_result, routed, requests, replies, raised>>

VARIABLES
    current,            \* the chat turn the event loop is running, 1 or 2
    other               \* the locals of the chat turn that is suspended at an await

auth_vars == <<auth_request, auth_response>>

sched_vars == <<current, other>>

VARIABLES
    calls               \* the calls made to a function on its own, as its tests
                        \* make them: the arguments and what was returned

call_vars == <<calls>>

vars == <<stream_vars, turn_vars, auth_vars, sched_vars, call_vars>>

None == "<None>"
DONE == "[DONE]"

\* ---------------------------------------------------------------- bounds
MaxLen == 4
SmallCharThreshold == 1
SmallWordThreshold == 3
SmallMaxDisplay == 2

\* ------------------------------------------------- configuration defaults
CHAR_STREAMING_THRESHOLD == 200
WORD_STREAMING_THRESHOLD == 1000
MAX_PRODUCTS_DISPLAY == 8
CATALOG_SIZE == 200

\* ------------------------------------------------------------ text helpers
Char(s, i) == SubSeq(s, i, i)

Min(a, b) == IF a < b THEN a ELSE b

Contains(s, p) ==
    \E i \in 1..(Len(s) - Len(p) + 1) : SubSeq(s, i, i + Len(p) - 1) = p

StartsWith(s, p) == Len(p) <= Len(s) /\ SubSeq(s, 1, Len(p)) = p

\* position of the first sep at or after from, 0 when there is none
NextSep(s, sep, from) ==
    IF \E i \in from..Len(s) : Char(s, i) = sep
    THEN CHOOSE i \in from..Len(s) :
            Char(s, i) = sep /\ \A j \in from..(i - 1) : Char(s, j) # sep
    ELSE 0

RECURSIVE SplitFrom(_, _, _)
SplitFrom(s, sep, from) ==
    LET p == NextSep(s, sep, from)
    IN  IF p = 0 THEN << SubSeq(s, from, Len(s)) >>
        ELSE << SubSeq(s, from, p - 1) >> \o SplitFrom(s, sep, p + 1)

\* str.split(sep) for a one-character separator
Split(s, sep) == SplitFrom(s, sep, 1)

RECURSIVE Join(_, _)
\* sep.join(parts)
Join(parts, sep) ==
    IF Len(parts) = 0 THEN ""
    ELSE IF Len(parts) = 1 THEN parts[1]
    ELSE parts[1] \o sep \o Join(Tail(parts), sep)

RECURSIVE Concat(_)
\* "".join(chunks)
Concat(chunks) == IF Len(chunks) = 0 THEN "" ELSE Head(chunks) \o Concat(Tail(chunks))

\* the characters of a text, as the for loop over a str visits them
Chars(s) == [i \in 1..Len(s) |-> Char(s, i)]

\* seq[:n] for n >= 0
Take(seq, n) == SubSeq(seq, 1, Min(n, Len(seq)))

Whitespace == {" ", "\n", "\t"}

\* line.strip() is the empty string
IsBlank(line) == \A i \in 1..Len(line) : Char(line, i) \in Whitespace

RECURSIVE ProductLinesFrom(_, _)
\* [line for line in lines[i-1:] if line.strip() and "[" in line]
ProductLinesFrom(lines, i) ==
    IF i > Len(lines) THEN <<>>
    ELSE IF ~IsBlank(lines[i]) /\ Contains(lines[i], "[")
         THEN << lines[i] >> \o ProductLinesFrom(lines, i + 1)
         ELSE ProductLinesFrom(lines, i + 1)

RECURSIVE Rep(_, _)
\* s * n
Rep(s, n) ==
    IF n = 0 THEN ""
    ELSE LET h == Rep(s, n \div 2)
         IN  IF n % 2 = 0 THEN h \o h ELSE h \o h \o s

RECURSIVE Digits(_)
\* str(n) for n >= 0
Digits(n) ==
    LET d == <<"0", "1", "2", "3", "4", "5", "6", "7", "8", "9">>
    IN  IF n < 10 THEN d[n + 1] ELSE Digits(n \div 10) \o d[(n % 10) + 1]

\* ---------------------------------------------------- streaming service
MARKER == "Found 200 products:"

FOOTER == "\n\n* To place an order for any of these products, please contact our sales team or visit our website. Note: This demo doesn't process actual orders."

Trailer(remaining) ==
    "\n\n... and " \o Digits(remaining) \o " more products.\nType 'search [keyword]' to find specific items or 'list monitors' for category browsing."

handle_product_truncation(svc, resp) ==
    IF ~svc.truncation_enabled THEN resp
    ELSE IF Contains(resp, MARKER)
    THEN LET lines == Split(resp, "\n")
             summary == lines[1]
             products == Take(ProductLinesFrom(lines, 2), svc.max_display)
             truncated_response ==
                 summary \o "\n\n" \o Join(Take(products, svc.max_display), "\n\n")
         IN  IF Len(products) > svc.max_display
             THEN truncated_response \o Trailer(CATALOG_SIZE - svc.max_display)
             ELSE truncated_response
    ELSE resp

\* add_footer for every category that is given
add_footer_any(resp, cat) ==
    IF cat # None THEN resp \o FOOTER ELSE resp

add_footer(resp, cat) ==
    IF cat = "PLACE_ORDER" THEN resp \o FOOTER ELSE resp

\* the text stream_resp paces: truncation, then the PLACE_ORDER footer
FinalText(svc, resp, cat) ==
    add_footer(handle_product_truncation(svc, resp), cat)

\* choose_mode with the character boundary excluded
choose_mode_strict(svc, text) ==
    IF Len(text) < svc.char_threshold THEN "char"
    ELSE IF Len(text) <= svc.word_threshold THEN "word"
    ELSE "line"

\* choose_mode with the word boundary excluded
choose_mode_word_strict(svc, text) ==
    IF Len(text) <= svc.char_threshold THEN "char"
    ELSE IF Len(text) < svc.word_threshold THEN "word"
    ELSE "line"

choose_mode(svc, text) ==
    IF Len(text) <= svc.char_threshold THEN "char"
    ELSE IF Len(text) <= svc.word_threshold THEN "word"
    ELSE "line"

loop_items(m, text) ==
    CASE m = "char" -> Chars(text)
      [] m = "word" -> Split(text, " ")
      [] m = "line" -> Split(text, "\n")

\* chunk_of without the newline after a line
chunk_of_bare(m, item) ==
    CASE m = "char" -> item
      [] m = "word" -> item \o " "
      [] m = "line" -> item

\* chunk_of without the space after a word
chunk_of_unspaced(m, item) ==
    CASE m = "char" -> item
      [] m = "word" -> item
      [] m = "line" -> item \o "\n"

chunk_of(m, item) ==
    CASE m = "char" -> item
      [] m = "word" -> item \o " "
      [] m = "line" -> item \o "\n"

\* stream_response up to the first loop iteration
StreamBegin ==
    /\ s_pc = "begin"
    /\ LET text == FinalText(streaming_service, s_response, s_intent)
           m == choose_mode(streaming_service, text)
           its == loop_items(m, text)
       IN  /\ final_text' = text
           /\ mode' = m
           /\ items' = its
           /\ idx' = 1
           /\ s_pc' = IF Len(its) = 0 THEN "fin" ELSE "poll"
    /\ UNCHANGED <<streaming_service, disconnected, s_response, s_intent, out,
                   events>>
    /\ UNCHANGED <<turn_vars, auth_vars, sched_vars, call_vars>>

\* the poll result ignored
PollContinues_Always(is_disc) == TRUE

\* the poll result read the wrong way round
PollContinues_Inverted(is_disc) == is_disc

\* if await request.is_disconnected(): break
PollContinues(is_disc) == ~is_disc

Poll ==
    /\ s_pc = "poll"
    /\ events' = Append(events, IF disconnected THEN "poll_true" ELSE "poll_false")
    /\ s_pc' = IF PollContinues(disconnected) THEN "emit" ELSE "fin"
    /\ UNCHANGED <<streaming_service, disconnected, s_response, s_intent,
                   final_text, mode, items, idx, out>>
    /\ UNCHANGED <<turn_vars, auth_vars, sched_vars, call_vars>>

\* yield {"data": ...}; await asyncio.sleep(delay); next iteration
Emit ==
    /\ s_pc = "emit"
    /\ out' = Append(out, chunk_of(mode, items[idx]))
    /\ idx' = idx + 1
    /\ events' = Append(events, "chunk")
    /\ s_pc' = IF idx + 1 > Len(items) THEN "fin" ELSE "poll"
    /\ UNCHANGED <<streaming_service, disconnected, s_response, s_intent,
                   final_text, mode, items>>
    /\ UNCHANGED <<turn_vars, auth_vars, sched_vars, call_vars>>

\* yield {"data": "[DONE]"}
EmitDone ==
    /\ s_pc = "fin"
    /\ out' = Append(out, DONE)
    /\ events' = Append(events, "done")
    /\ s_pc' = "closed"
    /\ UNCHANGED <<streaming_service, disconnected, s_response, s_intent,
                   final_text, mode, items, idx>>
    /\ UNCHANGED <<turn_vars, auth_vars, sched_vars, call_vars>>

\* the consumer goes away; it does not come back
ClientDisconnect ==
    /\ ~disconnected
    /\ s_pc # "closed"
    /\ pc # "done"
    /\ disconnected' = TRUE
    /\ UNCHANGED <<streaming_service, s_pc, s_response, s_intent, final_text,
                   mode, items, idx, out, events>>
    /\ UNCHANGED <<turn_vars, auth_vars, sched_vars, call_vars>>

\* ------------------------------------------------------ more text helpers
UpperLetters == "ABCDEFGHIJKLMNOPQRSTUVWXYZ"
LowerLetters == "abcdefghijklmnopqrstuvwxyz"

LowerChar(c) ==
    IF \E i \in 1..26 : Char(UpperLetters, i) = c
    THEN Char(LowerLetters, CHOOSE i \in 1..26 : Char(UpperLetters, i) = c)
    ELSE c

\* str.lower()
Lower(s) == Concat([i \in 1..Len(s) |-> LowerChar(Char(s, i))])

\* str.find(p) + 1: position of the first occurrence of p, 0 when there is none
Find(s, p) ==
    IF Contains(s, p)
    THEN CHOOSE i \in 1..(Len(s) - Len(p) + 1) :
            /\ SubSeq(s, i, i + Len(p) - 1) = p
            /\ \A j \in 1..(i - 1) : SubSeq(s, j, j + Len(p) - 1) # p
    ELSE 0

RECURSIVE Replace(_, _, _)
\* str.replace(old, new) for a non-empty old
Replace(s, old, new) ==
    LET i == Find(s, old)
    IN  IF i = 0 THEN s
        ELSE SubSeq(s, 1, i - 1) \o new
             \o Replace(SubSeq(s, i + Len(old), Len(s)), old, new)

\* str.strip()
Strip(s) ==
    IF IsBlank(s) THEN ""
    ELSE LET a == CHOOSE i \in 1..Len(s) :
                    Char(s, i) \notin Whitespace
                    /\ \A j \in 1..(i - 1) : Char(s, j) \in Whitespace
             b == CHOOSE i \in 1..Len(s) :
                    Char(s, i) \notin Whitespace
                    /\ \A j \in (i + 1)..Len(s) : Char(s, j) \in Whitespace
         IN  SubSeq(s, a, b)

\* --------------------------------------------------------- configuration
INTENT_CONFIDENCE_THRESHOLD == 70

CUSTOMERS ==
    [e \in {"donaldgarcia@example.net", "michellejames@example.com",
            "laurahenderson@example.org", "spenceamanda@example.org",
            "glee@example.net", "williamsthomas@example.net",
            "justin78@example.net", "jason31@example.com",
            "samuel81@example.com", "williamleon@example.net"} |->
        CASE e = "donaldgarcia@example.net" -> "7912"
          [] e = "michellejames@example.com" -> "1520"
          [] e = "laurahenderson@example.org" -> "1488"
          [] e = "spenceamanda@example.org" -> "2535"
          [] e = "glee@example.net" -> "4582"
          [] e = "williamsthomas@example.net" -> "4811"
          [] e = "justin78@example.net" -> "9279"
          [] e = "jason31@example.com" -> "1434"
          [] e = "samuel81@example.com" -> "4257"
          [] e = "williamleon@example.net" -> "9928"]

INTENT_CATEGORIES ==
    {"SEARCH_PRODUCTS", "ORDER_STATUS", "PLACE_ORDER", "WARRANTY_SUPPORT",
     "TECH_SUPPORT", "GREETING", "ACCOUNT_INFO", "OTHER"}

\* the routed categories with OTHER among them
ROUTED_INTENTS_with_other ==
    {"SEARCH_PRODUCTS", "ORDER_STATUS", "PLACE_ORDER", "WARRANTY_SUPPORT",
     "ACCOUNT_INFO", "OTHER"}

\* the categories the gate of event_generator lets through to the router
ROUTED_INTENTS ==
    {"SEARCH_PRODUCTS", "ORDER_STATUS", "PLACE_ORDER", "WARRANTY_SUPPORT",
     "ACCOUNT_INFO"}

\* CUSTOMERS.get(key): None for a key that is not in the table (None included)
CustomersGet(key) == IF key \in DOMAIN CUSTOMERS THEN CUSTOMERS[key] ELSE None

\* ------------------------------------------------------- langfuse client
\* the parameters each LangfuseClient method declares (self left out)
LangfuseParams ==
    [create_trace |-> {"name", "user_id", "session_id", "metadata"},
     log_generation |-> {"trace_id", "name", "input_data", "output_data",
                         "model", "tokens_used", "metadata"},
     log_span |-> {"trace", "name", "input_data", "output_data", "metadata"},
     log_event |-> {"trace_id", "name", "metadata"},
     update_trace |-> {"trace_id", "output", "metadata"}]

\* a call with keyword arguments kwargs raises TypeError when the method
\* declares no parameter of one of those names
CallRaises(method, kwargs) == ~(kwargs \subseteq LangfuseParams[method])

\* create_trace: None when disabled, else the id of a new trace
create_trace(enabled) == IF enabled THEN "trace-id" ELSE None

\* ----------------------------------------------------- intent classifier
Missing == "<missing>"
Unbound == "<unbound>"
NonStr == "<non-str>"

FALLBACK_RESULT ==
    [is_dict |-> TRUE,
     keys |-> {"intent", "confidence", "entities", "reasoning"},
     intent |-> "OTHER",
     confidence |-> 50,
     confidence_is_number |-> TRUE,
     entities |-> <<>>,
     reasoning |-> "Classification failed"]

NoResult ==
    [is_dict |-> FALSE, keys |-> {}, intent |-> None, confidence |-> 0,
     confidence_is_number |-> FALSE, entities |-> <<>>, reasoning |-> None]

\* the try block of classify_intent fails: a Langfuse call raises, the LLM
\* call raises, or json.loads rejects the model's output
ClassifyTryFails(outcome, tr) ==
    \/ tr # None /\ CallRaises("log_generation",
                    {"trace", "name", "input_data", "output_data", "model", "metadata"})
    \/ outcome.kind = "transport_error"
    \/ outcome.kind = "not_json"

\* the except block of classify_intent raises in its turn
ClassifyHandlerRaises(tr) ==
    tr # None /\ CallRaises("log_event", {"trace", "name", "metadata"})

\* classify_intent(message, customer, trace), given what the LLM call does
classify_intent(outcome, tr) ==
    IF ClassifyTryFails(outcome, tr)
    THEN IF ClassifyHandlerRaises(tr)
         THEN [raised |-> TRUE, result |-> NoResult]
         ELSE [raised |-> FALSE, result |-> FALLBACK_RESULT]
    ELSE [raised |-> FALSE, result |-> outcome.value]

\* intent_result.get(key, default)
ResultGet(result, key, default) ==
    IF key \in result.keys THEN result[key] ELSE default

\* ------------------------------------------------------- simple response
\* get_simple_response looking for the farewell before the acknowledgment
get_simple_response_bye_first(msg, cust) ==
    LET m == Lower(msg)
    IN  IF Contains(m, "hello") \/ Contains(m, "hi") \/ Contains(m, "hey")
        THEN "Hello " \o cust \o "! How can I help with your computer products today?"
        ELSE IF Contains(m, "bye") \/ Contains(m, "goodbye")
        THEN "Goodbye! Have a great day, and feel free to reach out if you need any help."
        ELSE IF Contains(m, "thank") \/ Contains(m, "thanks")
        THEN "You're welcome! Is there anything else I can help you with?"
        ELSE "I can help with orders, products, warranties, and technical issues. What do you need?"

get_simple_response(msg, cust) ==
    LET m == Lower(msg)
    IN  IF Contains(m, "hello") \/ Contains(m, "hi") \/ Contains(m, "hey")
        THEN "Hello " \o cust \o "! How can I help with your computer products today?"
        ELSE IF Contains(m, "thank") \/ Contains(m, "thanks")
        THEN "You're welcome! Is there anything else I can help you with?"
        ELSE IF Contains(m, "bye") \/ Contains(m, "goodbye")
        THEN "Goodbye! Have a great day, and feel free to reach out if you need any help."
        ELSE "I can help with orders, products, warranties, and technical issues. What do you need?"

\* ------------------------------------------------------------ MCP client
NoMsg == [name |-> None, arguments |-> [none |-> None], id |-> 0]

ToolMsg(tool, args, n) == [name |-> tool, arguments |-> args, id |-> n]

\* " ".join(entities) raises TypeError on an item that is not a str
JoinRaises(ents) == \E i \in 1..Len(ents) : ents[i] = NonStr

\* _handle_search_products without the default term
handle_search_products_no_default(ents, msg) ==
    ToolMsg("search_products",
            [query |-> IF Len(ents) > 0 THEN Join(ents, " ")
                       ELSE Strip(Replace(Replace(msg, "search", ""), "find", ""))], 2)

handle_search_products(ents, msg) ==
    LET search_term ==
            IF Len(ents) > 0 THEN Join(ents, " ")
            ELSE Strip(Replace(Replace(msg, "search", ""), "find", ""))
    IN  ToolMsg("search_products",
                [query |-> IF search_term = "" THEN "monitor" ELSE search_term], 2)

\* _handle_place_order listing the monitors whatever the terms
handle_place_order_monitors(ents, msg) ==
    ToolMsg("list_products", [category |-> "Monitors"], 2)

handle_place_order(ents, msg) ==
    IF Len(ents) > 0
    THEN ToolMsg("search_products", [query |-> Join(ents, " ")], 2)
    ELSE ToolMsg("list_products", [category |-> "Monitors"], 2)

handle_warranty_support == ToolMsg("list_products", [category |-> None], 2)

RECURSIVE DefaultCategory(_, _)
\* the category loop of _handle_default_products, from entity i on
DefaultCategory(ents, i) ==
    IF i > Len(ents) THEN None
    ELSE IF Contains(Lower(ents[i]), "monitor") THEN "Monitors"
    ELSE IF Contains(Lower(ents[i]), "computer") \/ Contains(Lower(ents[i]), "laptop")
         THEN "Computers"
    ELSE DefaultCategory(ents, i + 1)

RECURSIVE DefaultRaises(_, _)
\* entity.lower() raises AttributeError on an item that is not a str, when
\* the loop gets to it
DefaultRaises(ents, i) ==
    IF i > Len(ents) THEN FALSE
    ELSE IF ents[i] = NonStr THEN TRUE
    ELSE IF DefaultCategory(<< ents[i] >>, 1) # None THEN FALSE
    ELSE DefaultRaises(ents, i + 1)

\* _handle_default_products without the category detection
handle_default_products_uncategorised(ents) ==
    ToolMsg("list_products", [category |-> None], 2)

handle_default_products(ents) ==
    ToolMsg("list_products", [category |-> DefaultCategory(ents, 1)], 2)

verify_msg(cust) ==
    ToolMsg("verify_customer_pin", [email |-> cust, pin |-> CUSTOMERS[cust]], 2)

\* which branch of route_intent_to_mcp is taken
RouteBranch(cat, cust) ==
    IF cat = "SEARCH_PRODUCTS" THEN "search"
    ELSE IF cat = "ORDER_STATUS" /\ cust \in DOMAIN CUSTOMERS THEN "order_status"
    ELSE IF cat = "ACCOUNT_INFO" /\ cust \in DOMAIN CUSTOMERS THEN "account_info"
    ELSE IF cat = "PLACE_ORDER" /\ cust \in DOMAIN CUSTOMERS THEN "place_order"
    ELSE IF cat = "WARRANTY_SUPPORT" THEN "warranty"
    ELSE "default"

\* the branches that send nothing themselves: the request they build, or
\* the exception they raise
RouteBuild(branch, ents, msg) ==
    CASE branch = "search" ->
            [raised |-> Len(ents) > 0 /\ JoinRaises(ents),
             tool_msg |-> IF Len(ents) > 0 /\ JoinRaises(ents) THEN NoMsg
                          ELSE handle_search_products(ents, msg)]
      [] branch = "place_order" ->
            [raised |-> Len(ents) > 0 /\ JoinRaises(ents),
             tool_msg |-> IF Len(ents) > 0 /\ JoinRaises(ents) THEN NoMsg
                          ELSE handle_place_order(ents, msg)]
      [] branch = "warranty" ->
            [raised |-> FALSE, tool_msg |-> handle_warranty_support]
      [] branch = "default" ->
            [raised |-> DefaultRaises(ents, 1),
             tool_msg |-> IF DefaultRaises(ents, 1) THEN NoMsg
                          ELSE handle_default_products(ents)]

\* --- response envelopes of the tool endpoint
ResultTruthy(r) == r.has_sc \/ r.has_content \/ r.other

ContentItemRepr(item) ==
    IF item.has_text THEN "{'text': '" \o item.text \o "'}" ELSE "{}"

\* str(result): the dict as Python prints it
ResultRepr(r) ==
    LET sc == IF r.has_sc
              THEN << "'structuredContent': "
                      \o (IF r.sc_has_result
                          THEN "{'result': '" \o r.sc_result \o "'}" ELSE "{}") >>
              ELSE <<>>
        ct == IF r.has_content
              THEN << "'content': ["
                      \o Join([i \in 1..Len(r.content) |-> ContentItemRepr(r.content[i])], ", ")
                      \o "]" >>
              ELSE <<>>
        ot == IF r.other THEN << "'isError': False" >> ELSE <<>>
    IN  "{" \o Join(sc \o ct \o ot, ", ") \o "}"

\* _extract_customer_info: the text, None, or the KeyError of a content
\* item without "text"
extract_customer_info(env) ==
    IF ~env.has_result THEN [raised |-> FALSE, value |-> None]
    ELSE LET r == env.result
         IN  IF r.has_sc /\ r.sc_has_result
             THEN [raised |-> FALSE, value |-> r.sc_result]
             ELSE IF r.has_content /\ Len(r.content) > 0
             THEN IF r.content[1].has_text
                  THEN [raised |-> FALSE, value |-> r.content[1].text]
                  ELSE [raised |-> TRUE, value |-> None]
             ELSE [raised |-> FALSE, value |-> ResultRepr(r)]

HexDash == {"a", "b", "c", "d", "e", "f", "0", "1", "2", "3", "4", "5", "6",
            "7", "8", "9", "-"}

\* where re.search(r"ID: ([a-f0-9-]+)", info) matches, 0 when it does not
IdMatchPos(info) ==
    LET ok(i) == SubSeq(info, i, i + 3) = "ID: " /\ Char(info, i + 4) \in HexDash
    IN  IF \E i \in 1..(Len(info) - 4) : ok(i)
        THEN CHOOSE i \in 1..(Len(info) - 4) : ok(i) /\ \A j \in 1..(i - 1) : ~ok(j)
        ELSE 0

\* _extract_customer_id taking everything that follows "ID: "
extract_customer_id_to_end(info) ==
    LET p == IdMatchPos(info)
    IN  IF p = 0 THEN None ELSE SubSeq(info, p + 4, Len(info))

\* _extract_customer_id: group 1 of the match, None without a match
extract_customer_id(info) ==
    LET p == IdMatchPos(info)
    IN  IF p = 0 THEN None
        ELSE LET last == CHOOSE k \in (p + 4)..Len(info) :
                            /\ \A j \in (p + 4)..k : Char(info, j) \in HexDash
                            /\ (k = Len(info) \/ Char(info, k + 1) \notin HexDash)
             IN  SubSeq(info, p + 4, last)

Route(tool, direct) == [tool_msg |-> tool, direct_response |-> direct]

\* _handle_order_status sending the verification again after a failed attempt
handle_order_status_retrying(reply) ==
    IF reply.kind # "http" \/ reply.status # 200
    THEN Route(verify_msg(customer), "")
    ELSE LET info == extract_customer_info(reply.body)
         IN  IF ~reply.body.valid_json \/ info.raised
             THEN Route(NoMsg, "Unable to verify customer at this time. Please try again later.")
             ELSE IF info.value = None \/ info.value = ""
             THEN Route(NoMsg, "Unable to verify customer information. Please check your credentials.")
             ELSE IF extract_customer_id(info.value) # None
             THEN Route(ToolMsg("list_orders",
                                [customer_id |-> extract_customer_id(info.value)], 3), "")
             ELSE Route(NoMsg, "Customer verified: " \o SubSeq(info.value, 1, Min(200, Len(info.value))) \o "...")

\* _handle_order_status giving the whole info text when no id is found in it
handle_order_status_uncut(reply) ==
    IF reply.kind # "http" \/ (reply.status = 200 /\ ~reply.body.valid_json)
    THEN Route(NoMsg, "Unable to verify customer at this time. Please try again later.")
    ELSE IF reply.status # 200
    THEN Route(NoMsg, "Customer verification failed (status " \o Digits(reply.status)
                      \o "). Please check your email and PIN.")
    ELSE LET info == extract_customer_info(reply.body)
         IN  IF info.raised
             THEN Route(NoMsg, "Unable to verify customer at this time. Please try again later.")
             ELSE IF info.value = None \/ info.value = ""
             THEN Route(NoMsg, "Unable to verify customer information. Please check your credentials.")
             ELSE IF extract_customer_id(info.value) # None
             THEN Route(ToolMsg("list_orders",
                                [customer_id |-> extract_customer_id(info.value)], 3), "")
             ELSE Route(NoMsg, "Customer verified: " \o info.value \o "...")

\* _handle_order_status with one text for every failed verification
handle_order_status_one_text(reply) ==
    IF reply.kind # "http" \/ reply.status # 200 \/ ~reply.body.valid_json
    THEN Route(NoMsg, "Unable to verify customer at this time. Please try again later.")
    ELSE LET info == extract_customer_info(reply.body)
         IN  IF info.raised
             THEN Route(NoMsg, "Unable to verify customer at this time. Please try again later.")
             ELSE IF info.value = None \/ info.value = ""
             THEN Route(NoMsg, "Unable to verify customer information. Please check your credentials.")
             ELSE IF extract_customer_id(info.value) # None
             THEN Route(ToolMsg("list_orders",
                                [customer_id |-> extract_customer_id(info.value)], 3), "")
             ELSE Route(NoMsg, "Customer verified: " \o SubSeq(info.value, 1, Min(200, Len(info.value))) \o "...")

\* _handle_order_status returning the info text along with the list_orders request
handle_order_status_both(reply) ==
    IF reply.kind # "http" \/ (reply.status = 200 /\ ~reply.body.valid_json)
    THEN Route(NoMsg, "Unable to verify customer at this time. Please try again later.")
    ELSE IF reply.status # 200
    THEN Route(NoMsg, "Customer verification failed (status " \o Digits(reply.status)
                      \o "). Please check your email and PIN.")
    ELSE LET info == extract_customer_info(reply.body)
         IN  IF info.raised
             THEN Route(NoMsg, "Unable to verify customer at this time. Please try again later.")
             ELSE IF info.value = None \/ info.value = ""
             THEN Route(NoMsg, "Unable to verify customer information. Please check your credentials.")
             ELSE IF extract_customer_id(info.value) # None
             THEN Route(ToolMsg("list_orders",
                                [customer_id |-> extract_customer_id(info.value)], 3),
                        "Customer verified: " \o SubSeq(info.value, 1, Min(200, Len(info.value))) \o "...")
             ELSE Route(NoMsg, "Customer verified: " \o SubSeq(info.value, 1, Min(200, Len(info.value))) \o "...")

\* _handle_order_status from the reply to verify_customer_pin on
handle_order_status(reply) ==
    IF reply.kind # "http" \/ (reply.status = 200 /\ ~reply.body.valid_json)
    THEN Route(NoMsg, "Unable to verify customer at this time. Please try again later.")
    ELSE IF reply.status # 200
    THEN Route(NoMsg, "Customer verification failed (status " \o Digits(reply.status)
                      \o "). Please check your email and PIN.")
    ELSE LET info == extract_customer_info(reply.body)
         IN  IF info.raised
             THEN Route(NoMsg, "Unable to verify customer at this time. Please try again later.")
             ELSE IF info.value = None \/ info.value = ""
             THEN Route(NoMsg, "Unable to verify customer information. Please check your credentials.")
             ELSE IF extract_customer_id(info.value) # None
             THEN Route(ToolMsg("list_orders",
                                [customer_id |-> extract_customer_id(info.value)], 3), "")
             ELSE Route(NoMsg, "Customer verified: " \o SubSeq(info.value, 1, Min(200, Len(info.value))) \o "...")

\* _handle_account_info going on to fetch the orders as _handle_order_status does
handle_account_info_fetching(reply) == handle_order_status(reply)

\* _handle_account_info returning no text when the reply carries no info
handle_account_info_silent(reply) ==
    IF reply.kind # "http" \/ (reply.status = 200 /\ ~reply.body.valid_json)
    THEN Route(NoMsg, "Unable to retrieve account information at this time.")
    ELSE IF reply.status # 200
    THEN Route(NoMsg, "Unable to access account information. Please check your credentials.")
    ELSE LET info == extract_customer_info(reply.body)
         IN  IF info.raised
             THEN Route(NoMsg, "Unable to retrieve account information at this time.")
             ELSE IF info.value = None \/ info.value = ""
             THEN Route(NoMsg, "")
             ELSE Route(NoMsg, "Your account information:\n" \o info.value)

\* _handle_account_info from the reply to verify_customer_pin on
handle_account_info(reply) ==
    IF reply.kind # "http" \/ (reply.status = 200 /\ ~reply.body.valid_json)
    THEN Route(NoMsg, "Unable to retrieve account information at this time.")
    ELSE IF reply.status # 200
    THEN Route(NoMsg, "Unable to access account information. Please check your credentials.")
    ELSE LET info == extract_customer_info(reply.body)
         IN  IF info.raised
             THEN Route(NoMsg, "Unable to retrieve account information at this time.")
             ELSE IF info.value = None \/ info.value = ""
             THEN Route(NoMsg, "Unable to retrieve account information. Please contact support.")
             ELSE Route(NoMsg, "Your account information:\n" \o info.value)

NoMcpResult == [key |-> None, text |-> None]

Content(text) == [key |-> "content", text |-> text]
Failure(text) == [key |-> "error", text |-> text]

\* process_success_response looking at the error field first
process_success_response_error_first(body) ==
    IF ~body.valid_json
    THEN Failure("Service temporarily unavailable. Please try again later.")
    ELSE IF body.has_error
    THEN Failure("Service temporarily unavailable: "
                 \o (IF body.error_message = Missing THEN "Unknown MCP error"
                     ELSE body.error_message)
                 \o ". Please try again later.")
    ELSE IF body.has_result /\ ResultTruthy(body.result)
    THEN LET r == body.result
         IN  IF r.has_sc /\ r.sc_has_result
             THEN Content(r.sc_result)
             ELSE IF r.has_content /\ Len(r.content) > 0 /\ r.content[1].has_text
             THEN Content(r.content[1].text)
             ELSE Content(ResultRepr(r))
    ELSE Failure("Unable to process your request at this time. Please try again.")

process_success_response(body) ==
    IF ~body.valid_json
    THEN Failure("Service temporarily unavailable. Please try again later.")
    ELSE IF body.has_result /\ ResultTruthy(body.result)
    THEN LET r == body.result
         IN  IF r.has_sc /\ r.sc_has_result
             THEN Content(r.sc_result)
             ELSE IF r.has_content /\ Len(r.content) > 0 /\ r.content[1].has_text
             THEN Content(r.content[1].text)
             ELSE Content(ResultRepr(r))
    ELSE IF body.has_error
    THEN Failure("Service temporarily unavailable: "
                 \o (IF body.error_message = Missing THEN "Unknown MCP error"
                     ELSE body.error_message)
                 \o ". Please try again later.")
    ELSE Failure("Unable to process your request at this time. Please try again.")

process_error_response(status) ==
    IF status = 404
    THEN Failure("Service not found. Please contact support if this continues.")
    ELSE IF status >= 500
    THEN Failure("Service temporarily unavailable. Please try again in a few moments.")
    ELSE IF status = 429
    THEN Failure("Service is busy. Please wait a moment and try again.")
    ELSE Failure("Unable to connect to product database. Please try again later.")

\* execute_mcp_call from the reply to the request on
execute_mcp_call(reply) ==
    CASE reply.kind = "timeout" ->
            Failure("Request timed out. Please try again with a shorter query.")
      [] reply.kind = "connect_error" ->
            Failure("Unable to connect to product database. Please check your connection and try again.")
      [] reply.kind = "exception" ->
            Failure("An unexpected error occurred. Please try again or contact support if this continues.")
      [] reply.kind = "http" ->
            IF reply.status = 200 THEN process_success_response(reply.body)
            ELSE process_error_response(reply.status)

\* ------------------------------------- the PLACE_ORDER branch of main.py
\* main.py:316 and main.py:327: what response is set to before the request
place_order_preamble(ents) ==
    IF Len(ents) > 0
    THEN "Let me find '" \o Join(ents, " ") \o "' for you so you can place an order..."
    ELSE "I can help you place an order! Here are some popular products:"

\* the value of response when main.py gets to its streaming code, for
\* PLACE_ORDER with a known customer and string terms, given the reply to the
\* request: every path from the post on assigns response again
place_order_response(ents, reply) ==
    LET before == place_order_preamble(ents)
        after ==
            CASE reply.kind = "timeout" ->
                    "Request timed out. Please try again with a shorter query."
              [] reply.kind = "connect_error" ->
                    "Unable to connect to product database. Please check your connection and try again."
              [] reply.kind = "exception" ->
                    "An unexpected error occurred. Please try again or contact support if this continues."
              [] reply.kind = "http" ->
                    IF reply.status = 200
                    THEN LET r == process_success_response(reply.body)
                         IN  IF r.key = "content" THEN r.text \o FOOTER ELSE r.text
                    ELSE process_error_response(reply.status).text
    IN  IF reply.kind \in {"timeout", "connect_error", "exception", "http"}
        THEN after ELSE before

\* ----------------------------------------- inputs of stream_response
DefaultService ==
    [char_threshold |-> CHAR_STREAMING_THRESHOLD,
     word_threshold |-> WORD_STREAMING_THRESHOLD,
     max_display |-> MAX_PRODUCTS_DISPLAY,
     truncation_enabled |-> TRUE]

SmallService ==
    [char_threshold |-> SmallCharThreshold,
     word_threshold |-> SmallWordThreshold,
     max_display |-> SmallMaxDisplay,
     truncation_enabled |-> TRUE]

\* PRODUCT_TRUNCATION_ENABLED=false
NoTruncationService == [SmallService EXCEPT !.truncation_enabled = FALSE]

Alphabet == {"a", " ", "\n"}

RECURSIVE Strs(_)
Strs(n) ==
    IF n = 0 THEN {""}
    ELSE LET S == Strs(n - 1) IN S \cup {s \o c : s \in S, c \in Alphabet}

CatalogBody == "\n\n[A] one\n  Category: Monitors\n\n[B] two\n\n[C] three"

LongTexts ==
    { Rep("word ", 59) \o "word",
      Rep("Line of text\n", 80) \o "end",
      "one two  three " \o Rep("word ", 40) \o "end",
      Rep("a", CHAR_STREAMING_THRESHOLD),
      Rep("a", CHAR_STREAMING_THRESHOLD) \o "b",
      Rep("a", WORD_STREAMING_THRESHOLD \div 2 - 1) \o " "
          \o Rep("b", WORD_STREAMING_THRESHOLD \div 2),
      Rep("a", WORD_STREAMING_THRESHOLD \div 2) \o "\n"
          \o Rep("b", WORD_STREAMING_THRESHOLD \div 2),
      "hello [DONE] world",
      MARKER \o CatalogBody,
      MARKER,
      "Note: " \o MARKER \o "\n[A] one" }

StreamTexts == Strs(MaxLen) \cup LongTexts

StreamIntents == {None, "PLACE_ORDER", "SEARCH_PRODUCTS"}

\* ------------------------------------------------ inputs of a chat turn
EmptyResult ==
    [has_sc |-> FALSE, sc_has_result |-> FALSE, sc_result |-> "",
     has_content |-> FALSE, content |-> <<>>, other |-> FALSE]

Envelope(has_result, result, has_error, error_message) ==
    [valid_json |-> TRUE, has_result |-> has_result, result |-> result,
     has_error |-> has_error, error_message |-> error_message]

InvalidJson ==
    [valid_json |-> FALSE, has_result |-> FALSE, result |-> EmptyResult,
     has_error |-> FALSE, error_message |-> Missing]

\* {"result": {"structuredContent": {"result": text}}}
StructuredEnvelope(text) ==
    Envelope(TRUE, [EmptyResult EXCEPT !.has_sc = TRUE, !.sc_has_result = TRUE,
                                       !.sc_result = text], FALSE, Missing)

\* {"result": {"content": [{"text": text}]}}
ContentEnvelope(text) ==
    Envelope(TRUE, [EmptyResult EXCEPT !.has_content = TRUE,
                                       !.content = << [has_text |-> TRUE, text |-> text] >>],
             FALSE, Missing)

\* {"result": {"isError": false}}
OtherEnvelope == Envelope(TRUE, [EmptyResult EXCEPT !.other = TRUE], FALSE, Missing)

\* {"result": {"content": [{}]}}
TextlessEnvelope ==
    Envelope(TRUE, [EmptyResult EXCEPT !.has_content = TRUE,
                                       !.content = << [has_text |-> FALSE, text |-> ""] >>],
             FALSE, Missing)

\* {"error": {"message": text}}
ErrorEnvelope(text) == Envelope(FALSE, EmptyResult, TRUE, text)

\* {}
EmptyEnvelope == Envelope(FALSE, EmptyResult, FALSE, Missing)

\* {"result": {"content": [{"text": text}]}, "error": {"message": msg}}
BothEnvelope(text, msg) ==
    [ContentEnvelope(text) EXCEPT !.has_error = TRUE, !.error_message = msg]

\* {"result": {}}
EmptyResultEnvelope == Envelope(TRUE, EmptyResult, FALSE, Missing)

\* {"result": {}, "error": {"message": msg}}
EmptyResultErrorEnvelope(msg) == Envelope(TRUE, EmptyResult, TRUE, msg)

Reply(kind, status, body) == [kind |-> kind, status |-> status, body |-> body]

INFO_WITH_ID == "Customer verified: Donald Garcia. ID: 41c2903a-f1a5"
INFO_NO_ID == "Customer verified: Donald Garcia"
PRODUCT_TEXT == "[MON-0001] 27-inch 4K Monitor"
\* an info text with two ids, each followed by more text
INFO_TWO_IDS == "Customer ID: ab12-cd34 verified. Order ID: ff00."
\* an info text of more than 200 characters that names no id
LONG_INFO == "Customer verified: Donald Garcia. " \o Rep("Order history unavailable. ", 8)

HttpReplies ==
    { Reply("timeout", 0, InvalidJson),
      Reply("connect_error", 0, InvalidJson),
      Reply("exception", 0, InvalidJson),
      Reply("http", 404, InvalidJson),
      Reply("http", 429, InvalidJson),
      Reply("http", 500, InvalidJson),
      Reply("http", 401, InvalidJson),
      Reply("http", 200, InvalidJson),
      Reply("http", 200, StructuredEnvelope(INFO_WITH_ID)),
      Reply("http", 200, ContentEnvelope(INFO_TWO_IDS)),
      Reply("http", 200, ContentEnvelope(INFO_NO_ID)),
      Reply("http", 200, ContentEnvelope(LONG_INFO)),
      Reply("http", 200, ContentEnvelope(PRODUCT_TEXT)),
      Reply("http", 200, StructuredEnvelope(MARKER \o CatalogBody)),
      Reply("http", 200, OtherEnvelope),
      Reply("http", 200, TextlessEnvelope),
      Reply("http", 200, ErrorEnvelope("overloaded")),
      Reply("http", 200, ErrorEnvelope(Missing)),
      Reply("http", 200, BothEnvelope(PRODUCT_TEXT, "overloaded")),
      Reply("http", 200, EmptyResultEnvelope),
      Reply("http", 200, EmptyResultErrorEnvelope("overloaded")),
      Reply("http", 200, EmptyEnvelope) }

Number(v) == [is_number |-> TRUE, value |-> v]
NotANumber == [is_number |-> FALSE, value |-> 0]

\* JSON objects the model may answer with: any of the three keys may be absent
JsonDict(keys, cat, conf, ents) ==
    [is_dict |-> TRUE, keys |-> keys, intent |-> cat, confidence |-> conf.value,
     confidence_is_number |-> conf.is_number, entities |-> ents,
     reasoning |-> "because"]

\* a JSON value that is no object, such as a list
JsonList == [NoResult EXCEPT !.intent = "<list>"]

Confidences == {50, INTENT_CONFIDENCE_THRESHOLD, INTENT_CONFIDENCE_THRESHOLD + 1}

EntityLists == { <<>>, <<"gaming", "laptop">>, << NonStr >> }

LlmValues ==
    { JsonDict({"intent", "confidence", "entities"}, c, Number(v), e) :
        c \in INTENT_CATEGORIES \cup {"BOGUS"}, v \in Confidences, e \in EntityLists }
    \cup { JsonDict({"intent", "entities"}, c, NotANumber, <<"Monitor">>) :
             c \in {"ORDER_STATUS", "GREETING"} }
    \cup { JsonDict({"intent", "confidence", "entities"}, c, NotANumber, <<>>) :
             c \in {"ORDER_STATUS", "GREETING"} }
    \cup { JsonDict({"confidence"}, None, Number(95), <<>>) }
    \cup { JsonDict({"intent", "confidence", "entities"}, "SEARCH_PRODUCTS", Number(150), <<>>) }
    \cup { JsonDict({"intent", "confidence", "entities"}, "SEARCH_PRODUCTS",
                    Number(INTENT_CONFIDENCE_THRESHOLD + 1), <<"">>) }
    \cup { JsonDict({"intent", "confidence", "entities"}, c,
                    Number(INTENT_CONFIDENCE_THRESHOLD + 1),
                    IF c = "ORDER_STATUS" THEN <<"4K MONITOR", "laptop">>
                    ELSE <<"cable", "Desktop Computer", "monitor">>) :
             c \in {"ORDER_STATUS", "ACCOUNT_INFO", "PLACE_ORDER"} }
    \cup { JsonList }

LlmOutcomes ==
    { [kind |-> "transport_error", value |-> NoResult],
      [kind |-> "not_json", value |-> NoResult] }
    \cup { [kind |-> "json", value |-> v] : v \in LlmValues }

NoLlm == [kind |-> "none", value |-> NoResult]

TurnCustomers == {"donaldgarcia@example.net", "guest"}

TurnMessages == {"Hi", "thanks", "search find ", "please find a laptop"}

LowThreshold == 40

\* --------------------------------------------------------- a chat turn
ERROR_RESPONSE == "I'm experiencing technical difficulties. Please try again."
ROUTING_ERROR == "An unexpected error occurred. Please try again or contact support if this continues."

\* stream_response(resp, request, cat) is entered
GoStream(resp, cat) ==
    /\ s_response' = resp
    /\ s_intent' = cat
    /\ s_pc' = "begin"
    /\ pc' = "streaming"
    /\ UNCHANGED <<streaming_service, disconnected, final_text, mode, items, idx,
                   out, events>>

\* the finally block: update_trace is called when there is a trace; its
\* arguments read response, intent and confidence
FinallyRaises(tr, resp) ==
    IF tr = None THEN None
    ELSE IF resp = Unbound THEN "UnboundLocalError"
    ELSE IF CallRaises("update_trace", {"trace", "output", "metadata"}) THEN "TypeError"
    ELSE None

\* except Exception (lines 193-206), entered with the locals as primed
EnterExcept ==
    IF trace # None /\ CallRaises("log_event", {"trace", "name", "metadata"})
    THEN /\ pc' = "done"
         /\ raised' = (IF FinallyRaises(trace, response') # None
                       THEN FinallyRaises(trace, response') ELSE "TypeError")
         /\ UNCHANGED stream_vars
    ELSE /\ GoStream(ERROR_RESPONSE, None)
         /\ UNCHANGED raised

\* lines 50-59
Start ==
    /\ pc = "start"
    /\ IF disconnected
       THEN pc' = "done" /\ UNCHANGED trace
       ELSE pc' = "classify" /\ trace' = create_trace(langfuse_enabled)
    /\ UNCHANGED <<customer, message, langfuse_enabled, confidence_threshold, llm,
                   classify_raised, intent_result, intent, entities, confidence,
                   response, routed, requests, replies, raised>>
    /\ UNCHANGED <<stream_vars, auth_vars, sched_vars, call_vars>>
    /\ UNCHANGED mcp_result

\* lines 61-85: classify, unpack the result, take the simple response
Classify(outcome) ==
    /\ pc = "classify"
    /\ llm' = outcome
    /\ LET c == classify_intent(outcome, trace)
       IN  /\ classify_raised' = c.raised
           /\ intent_result' = c.result
           /\ IF c.raised \/ ~c.result.is_dict
              THEN /\ UNCHANGED <<intent, entities, confidence, response>>
                   /\ EnterExcept
              ELSE /\ intent' = ResultGet(c.result, "intent", "OTHER")
                   /\ entities' = ResultGet(c.result, "entities", <<>>)
                   /\ confidence' =
                        IF "confidence" \in c.result.keys
                        THEN [is_number |-> c.result.confidence_is_number,
                              value |-> c.result.confidence]
                        ELSE Number(50)
                   /\ IF trace # None /\ CallRaises("log_event", {"trace", "name", "metadata"})
                      THEN UNCHANGED response /\ EnterExcept
                      ELSE /\ response' = get_simple_response(message, customer)
                           /\ pc' = "gate"
                           /\ UNCHANGED raised
                           /\ UNCHANGED stream_vars
    /\ UNCHANGED <<customer, message, langfuse_enabled, confidence_threshold, trace,
                   routed, requests, replies>>
    /\ UNCHANGED <<auth_vars, sched_vars, call_vars>>
    /\ UNCHANGED mcp_result

\* the gate with a confidence equal to the threshold let through
GateOpen_AtLeast(cat, conf, threshold) == cat \in ROUTED_INTENTS /\ conf >= threshold

\* the condition of lines 88-98 for a numeric confidence
GateOpen(cat, conf, threshold) == cat \in ROUTED_INTENTS /\ conf > threshold

\* lines 88-118 and the router up to its first request
Gate ==
    /\ pc = "gate"
    /\ IF intent \notin ROUTED_INTENTS
       THEN /\ GoStream(response, intent)
            /\ UNCHANGED <<response, routed, requests, raised>>
       ELSE IF ~confidence.is_number
       THEN /\ UNCHANGED <<response, routed, requests>>
            /\ EnterExcept
       ELSE IF ~GateOpen(intent, confidence.value, confidence_threshold)
       THEN /\ GoStream(response, intent)
            /\ UNCHANGED <<response, routed, requests, raised>>
       ELSE LET branch == RouteBranch(intent, customer)
            IN  /\ routed' = TRUE
                /\ UNCHANGED raised
                /\ IF branch \in {"order_status", "account_info"}
                   THEN /\ requests' = Append(requests, verify_msg(customer))
                        /\ pc' = "verify_wait"
                        /\ UNCHANGED response
                        /\ UNCHANGED stream_vars
                   ELSE LET b == RouteBuild(branch, entities, message)
                        IN  IF b.raised
                            THEN /\ response' = ROUTING_ERROR
                                 /\ GoStream(ROUTING_ERROR, intent)
                                 /\ UNCHANGED requests
                            ELSE /\ requests' = Append(requests, b.tool_msg)
                                 /\ pc' = "execute_wait"
                                 /\ UNCHANGED response
                                 /\ UNCHANGED stream_vars
    /\ UNCHANGED <<customer, message, langfuse_enabled, confidence_threshold, trace,
                   llm, classify_raised, intent_result, intent, entities, confidence,
                   replies>>
    /\ UNCHANGED <<auth_vars, sched_vars, call_vars>>
    /\ UNCHANGED mcp_result

\* the reply to verify_customer_pin arrives: the rest of the router, then
\* lines 120-141
VerifyReply(reply) ==
    /\ pc = "verify_wait"
    /\ replies' = Append(replies, reply)
    /\ LET r == IF RouteBranch(intent, customer) = "order_status"
                THEN handle_order_status(reply) ELSE handle_account_info(reply)
       IN  IF r.direct_response # ""
           THEN /\ response' = r.direct_response
                /\ GoStream(r.direct_response, intent)
                /\ UNCHANGED requests
           ELSE IF r.tool_msg # NoMsg
           THEN /\ requests' = Append(requests, r.tool_msg)
                /\ pc' = "execute_wait"
                /\ UNCHANGED response
                /\ UNCHANGED stream_vars
           ELSE /\ GoStream(response, intent)
                /\ UNCHANGED <<response, requests>>
    /\ UNCHANGED <<customer, message, langfuse_enabled, confidence_threshold, trace,
                   llm, classify_raised, intent_result, intent, entities, confidence,
                   routed, raised>>
    /\ UNCHANGED <<auth_vars, sched_vars, call_vars>>
    /\ UNCHANGED mcp_result

\* the reply to the request of execute_mcp_call arrives: lines 141-175
ExecuteReply(reply) ==
    /\ pc = "execute_wait"
    /\ replies' = Append(replies, reply)
    /\ mcp_result' = execute_mcp_call(reply)
    /\ response' = mcp_result'.text
    /\ GoStream(mcp_result'.text, intent)
    /\ UNCHANGED <<customer, message, langfuse_enabled, confidence_threshold, trace,
                   llm, classify_raised, intent_result, intent, entities, confidence,
                   routed, requests, raised>>
    /\ UNCHANGED <<auth_vars, sched_vars, call_vars>>

\* stream_response has returned: the finally block, lines 208-220
TurnEnd ==
    /\ pc = "streaming"
    /\ s_pc = "closed"
    /\ pc' = "done"
    /\ raised' = FinallyRaises(trace, response)
    /\ UNCHANGED <<customer, message, langfuse_enabled, confidence_threshold, trace,
                   llm, classify_raised, intent_result, intent, entities, confidence,
                   response, routed, requests, replies>>
    /\ UNCHANGED <<stream_vars, auth_vars, sched_vars, call_vars>>
    /\ UNCHANGED mcp_result

\* one chat turn only: nothing is suspended
NoOther == [pc |-> None]

NoAuth == [email |-> Unbound, pin |-> Unbound]
NoAuthResponse == [success |-> FALSE, customer |-> Unbound]

InitTurnVars ==
    /\ pc = "start"
    /\ customer \in TurnCustomers
    /\ message \in TurnMessages
    /\ langfuse_enabled \in BOOLEAN
    /\ confidence_threshold \in {INTENT_CONFIDENCE_THRESHOLD, LowThreshold}
    /\ trace = None
    /\ llm = NoLlm
    /\ classify_raised = FALSE
    /\ intent_result = NoResult
    /\ intent = Unbound
    /\ entities = <<>>
    /\ confidence = NotANumber
    /\ response = Unbound
    /\ mcp_result = NoMcpResult
    /\ routed = FALSE
    /\ requests = <<>>
    /\ replies = <<>>
    /\ raised = None

IdleStreamVars ==
    /\ s_response = Unbound
    /\ s_intent = None
    /\ final_text = None
    /\ mode = None
    /\ items = <<>>
    /\ idx = 1
    /\ out = <<>>
    /\ events = <<>>

\* The deployments a turn is run under: every input under the small pacing
\* thresholds, and the default configuration with one message (pacing a
\* default-size text takes a step per character).
Init ==
    /\ InitTurnVars
    /\ streaming_service \in {DefaultService, SmallService}
    /\ streaming_service = DefaultService =>
            message = "Hi" /\ confidence_threshold = INTENT_CONFIDENCE_THRESHOLD
    /\ disconnected \in BOOLEAN
    /\ s_pc = "idle"
    /\ IdleStreamVars
    /\ auth_request = NoAuth
    /\ auth_response = NoAuthResponse
    /\ current = 1
    /\ calls = <<>>
    /\ other = NoOther

Next ==
    \/ Start
    \/ \E outcome \in LlmOutcomes : Classify(outcome)
    \/ Gate
    \/ \E reply \in HttpReplies : VerifyReply(reply)
    \/ \E reply \in HttpReplies : ExecuteReply(reply)
    \/ StreamBegin
    \/ Poll
    \/ Emit
    \/ EmitDone
    \/ ClientDisconnect
    \/ TurnEnd

Spec == Init /\ [][Next]_vars

\* ------------------------------------------ stream_response on its own
\* no chat turn is running: the service is called directly, as its tests do
StandaloneTurnVars ==
    /\ pc = "standalone"
    /\ customer = None
    /\ message = None
    /\ langfuse_enabled = FALSE
    /\ confidence_threshold = INTENT_CONFIDENCE_THRESHOLD
    /\ trace = None
    /\ llm = NoLlm
    /\ classify_raised = FALSE
    /\ intent_result = NoResult
    /\ intent = Unbound
    /\ entities = <<>>
    /\ confidence = NotANumber
    /\ response = Unbound
    /\ mcp_result = NoMcpResult
    /\ routed = FALSE
    /\ requests = <<>>
    /\ replies = <<>>
    /\ raised = None

InitStream ==
    /\ streaming_service \in {DefaultService, SmallService, NoTruncationService}
    /\ disconnected \in BOOLEAN
    /\ s_pc = "begin"
    /\ s_response \in StreamTexts
    /\ s_intent \in StreamIntents
    /\ final_text = None
    /\ mode = None
    /\ items = <<>>
    /\ idx = 1
    /\ out = <<>>
    /\ events = <<>>
    /\ StandaloneTurnVars
    /\ auth_request = NoAuth
    /\ auth_response = NoAuthResponse
    /\ current = 1
    /\ calls = <<>>
    /\ other = NoOther

NextStream ==
    \/ StreamBegin
    \/ Poll
    \/ Emit
    \/ EmitDone
    \/ ClientDisconnect

SpecStream == InitStream /\ [][NextStream]_vars

\* ------------------------------------------------------------ POST /auth
\* authenticate: data.get("email") and data.get("pin") are None for a key
\* the body does not carry
authenticate(data) ==
    LET is_valid == CustomersGet(data.email) = data.pin
    IN  [success |-> is_valid, customer |-> IF is_valid THEN data.email ELSE None]

AuthEmails == DOMAIN CUSTOMERS \cup {"invalid@example.com", None}
AuthPins == {CUSTOMERS[e] : e \in DOMAIN CUSTOMERS} \cup {"0000", None}
AuthBodies == [email : AuthEmails, pin : AuthPins]

Authenticate(data) ==
    /\ auth_request' = data
    /\ auth_response' = authenticate(data)
    /\ UNCHANGED <<stream_vars, turn_vars, sched_vars, call_vars>>

InitAuth ==
    /\ StandaloneTurnVars
    /\ streaming_service = DefaultService
    /\ disconnected = FALSE
    /\ s_pc = "idle"
    /\ IdleStreamVars
    /\ auth_request = NoAuth
    /\ auth_response = NoAuthResponse
    /\ current = 1
    /\ calls = <<>>
    /\ other = NoOther

NextAuth == \E data \in AuthBodies : Authenticate(data)

SpecAuth == InitAuth /\ [][NextAuth]_vars

\* ================================================================ claims
AfterGate == pc \in {"verify_wait", "execute_wait", "streaming", "done"}

Closed == s_pc = "closed"

\* the chunks before the last one
ContentChunks == SubSeq(out, 1, Len(out) - 1)

\* the gate was reached with a classification and did not route
RoutingSkipped ==
    /\ AfterGate
    /\ intent # Unbound
    /\ response # Unbound
    /\ \/ intent \notin ROUTED_INTENTS
       \/ confidence.is_number /\ confidence.value <= confidence_threshold

\* C1: the router is invoked, and a request goes to the tool endpoint only
\* then, exactly when the category is in the routed set and the confidence is
\* strictly above the threshold; a confidence equal to the threshold does not
\* route.
C1_RoutedIffGate ==
    /\ ~AfterGate => ~routed
    /\ AfterGate =>
         (routed <=> /\ intent \in {"SEARCH_PRODUCTS", "ORDER_STATUS", "PLACE_ORDER",
                                    "WARRANTY_SUPPORT", "ACCOUNT_INFO"}
                     /\ confidence.is_number
                     /\ confidence.value > confidence_threshold)
    /\ Len(requests) > 0 => routed
    /\ (AfterGate /\ confidence.is_number /\ confidence.value = confidence_threshold)
         => ~routed /\ requests = <<>>

C1_Witness ==
    /\ pc = "done"
    /\ routed
    /\ Len(requests) > 0
    /\ confidence.value = confidence_threshold + 1

\* C2: when routing is skipped, the text handed to the pacing stage after
\* truncation and footer is exactly get_simple_response(message, customer),
\* for every category.
C2_FallbackVerbatim ==
    (RoutingSkipped /\ final_text # None)
        => final_text = get_simple_response(message, customer)

\* C3: every chat turn delivers a chunk stream that ends with [DONE],
\* whatever happens in the turn; after an unexpected exception the generic
\* error text is what was streamed.
C3_TurnEndsWithDone ==
    pc = "done" =>
        /\ raised = None
        /\ Len(out) > 0
        /\ out[Len(out)] = DONE

\* C4: stream_response emits [DONE] exactly once, as its last chunk; when the
\* first disconnect poll already finds the consumer gone, [DONE] is the only
\* chunk.
C4_DoneOnceAndLast ==
    /\ ~Closed => \A i \in 1..Len(out) : out[i] # DONE
    /\ Closed =>
         /\ Len(out) >= 1
         /\ out[Len(out)] = DONE
         /\ \A i \in 1..(Len(out) - 1) : out[i] # DONE
    /\ (Closed /\ Len(events) > 0 /\ events[1] = "poll_true") => out = << DONE >>

C4_Witness ==
    /\ pc = "standalone"
    /\ Closed
    /\ events = << "poll_true", "done" >>
    /\ Len(final_text) > 1

\* C5: in every pacing mode each content chunk comes right after a disconnect
\* poll that returned false, and after a poll that returned true no content
\* chunk follows.
C5_ChunkOnlyAfterFalsePoll ==
    /\ \A i \in 1..Len(events) :
         events[i] = "chunk" => (i > 1 /\ events[i - 1] = "poll_false")
    /\ \A i \in 1..Len(events) :
         events[i] = "poll_true" => \A j \in (i + 1)..Len(events) : events[j] # "chunk"
    /\ Cardinality({i \in 1..Len(events) : events[i] = "chunk"})
         = Len(out) - (IF Closed THEN 1 ELSE 0)

C5_Witness ==
    /\ pc = "standalone"
    /\ Closed
    /\ mode = "word"
    /\ Len(out) = 3
    /\ Len(items) > 3
    /\ events[Len(events) - 1] = "poll_true"

\* C6: at most two requests go to the tool endpoint in a turn, and two only
\* for ORDER_STATUS with a known customer, the first being verify_customer_pin
\* whose reply yielded a customer id and the second list_orders.
C6_AtMostTwoRequests ==
    /\ Len(requests) <= 2
    /\ Len(requests) = 2 =>
         /\ intent = "ORDER_STATUS"
         /\ customer \in DOMAIN CUSTOMERS
         /\ requests[1].name = "verify_customer_pin"
         /\ requests[2].name = "list_orders"
         /\ Len(replies) >= 1
         /\ replies[1].kind = "http"
         /\ replies[1].status = 200
         /\ IdMatchPos(extract_customer_info(replies[1].body).value) > 0

C6_Witness ==
    /\ pc = "done"
    /\ Len(requests) = 2
    /\ Len(replies) = 2

\* C7: classify_intent never raises past its boundary; every failure inside
\* it, with or without a trace, gives the fallback result.
C7_ClassifierNeverRaises ==
    /\ ~classify_raised
    /\ llm.kind \in {"transport_error", "not_json"} => intent_result = FALLBACK_RESULT

\* C8: POST /auth answers success=true and customer=email exactly when the
\* email is a key of the credential table and the pin is that email's PIN,
\* and success=false, customer=null in every other case.
C8_AuthExact ==
    auth_request # NoAuth =>
        LET valid == /\ auth_request.email \in DOMAIN CUSTOMERS
                     /\ auth_request.pin = CUSTOMERS[auth_request.email]
        IN  auth_response = [success |-> valid,
                             customer |-> IF valid THEN auth_request.email ELSE None]

\* C9: for a final text no longer than the character threshold and a consumer
\* that stays connected, the stream is len(text) one-character chunks, then
\* [DONE], and the chunks concatenate to the text.
C9_CharRoundTrip ==
    (Closed /\ ~disconnected /\ Len(final_text) <= streaming_service.char_threshold) =>
        /\ Len(out) = Len(final_text) + 1
        /\ \A i \in 1..Len(final_text) : Len(out[i]) = 1
        /\ out[Len(out)] = DONE
        /\ Concat(ContentChunks) = final_text

C9_Witness ==
    /\ pc = "standalone"
    /\ Closed
    /\ ~disconnected
    /\ Len(final_text) = streaming_service.char_threshold
    /\ Len(out) = Len(final_text) + 1

\* C10 as stated: for a final text longer than the word threshold and a
\* consumer that stays connected, the content chunks concatenate to the text
\* exactly.
C10_LineRoundTripExact ==
    (Closed /\ ~disconnected /\ Len(final_text) > streaming_service.word_threshold) =>
        Concat(ContentChunks) = final_text

\* C10 amended: the content chunks concatenate to the text followed by one
\* more newline; nothing else is added and nothing is lost.
C10_LineRoundTripPlusNewline ==
    (Closed /\ ~disconnected /\ Len(final_text) > streaming_service.word_threshold) =>
        Concat(ContentChunks) = final_text \o "\n"

C10_Witness ==
    /\ pc = "standalone"
    /\ Closed
    /\ ~disconnected
    /\ mode = "line"
    /\ Len(final_text) > streaming_service.word_threshold
    /\ Len(out) > 2
    /\ Contains(final_text, "\n")

RECURSIVE DropInnerEmpty(_, _)
\* the tokens of a split on " " without the empty ones that a run of spaces
\* leaves between two others
DropInnerEmpty(t, i) ==
    IF i > Len(t) THEN <<>>
    ELSE IF t[i] = "" /\ i > 1 /\ i < Len(t) THEN DropInnerEmpty(t, i + 1)
    ELSE << t[i] >> \o DropInnerEmpty(t, i + 1)

\* every run of spaces replaced by one space
CollapseSpaces(s) == Join(DropInnerEmpty(Split(s, " "), 1), " ")

\* the words of a text: what stands between its spaces, in order
Words(s) == SelectSeq(Split(s, " "), LAMBDA w : w # "")

StrictlyBetweenThresholds ==
    /\ Len(final_text) > streaming_service.char_threshold
    /\ Len(final_text) < streaming_service.word_threshold

\* C11: for a final text whose length is strictly between the character and
\* the word threshold and a consumer that stays connected, the content chunks,
\* concatenated and with runs of spaces collapsed, give the words of the text
\* in their order: none lost, duplicated or moved.
C11_WordRoundTrip ==
    (Closed /\ ~disconnected /\ StrictlyBetweenThresholds) =>
        /\ mode = "word"
        /\ Words(CollapseSpaces(Concat(ContentChunks))) = Words(final_text)

C11_Witness ==
    /\ pc = "standalone"
    /\ Closed
    /\ ~disconnected
    /\ StrictlyBetweenThresholds
    /\ Contains(final_text, "  ")
    /\ Len(Words(final_text)) > 3
    /\ Words(final_text)[1] # Words(final_text)[2]

EndsWith(s, p) == Len(p) <= Len(s) /\ SubSeq(s, Len(s) - Len(p) + 1, Len(s)) = p

\* stream_response has computed its final text and added no footer to it
Truncated == final_text # None /\ s_intent # "PLACE_ORDER"

\* the qualifying product lines of the text given to stream_response
QualifyingLines == ProductLinesFrom(Split(s_response, "\n"), 2)

\* C12: with truncation enabled and a text that starts with the marker and
\* has N qualifying product lines: for N >= cap the output is the summary, the
\* first cap entries in order, and at its end the trailer announcing
\* 200 - cap more products with the search hint; for N < cap it has all N
\* entries and no "more products" trailer.
C12_TruncationTrailer ==
    (Truncated /\ streaming_service.truncation_enabled /\ StartsWith(s_response, MARKER)) =>
        LET cap == streaming_service.max_display
            N == Len(QualifyingLines)
            trailer == Trailer(CATALOG_SIZE - cap)
            head == Split(s_response, "\n")[1] \o "\n\n"
        IN  IF N >= cap
            THEN /\ EndsWith(final_text, trailer)
                 /\ SubSeq(final_text, 1, Len(final_text) - Len(trailer))
                        = head \o Join(Take(QualifyingLines, cap), "\n\n")
            ELSE /\ final_text = head \o Join(QualifyingLines, "\n\n")
                 /\ ~Contains(final_text, "more products")

\* C13: the truncation step returns the text unchanged unless truncation is
\* enabled and the text begins with the marker; a text that has the marker
\* further on, and any text when truncation is disabled, passes unmodified.
C13_TruncationFrame ==
    (Truncated /\ ~(streaming_service.truncation_enabled /\ StartsWith(s_response, MARKER)))
        => final_text = s_response

\* the content chunks delivered so far
Delivered == IF Closed THEN ContentChunks ELSE out

\* the chunks a pacing tier gives for a text
TierChunks(tier, text) ==
    CASE tier = "char" -> Chars(text)
      [] tier = "word" -> LET t == Split(text, " ") IN [i \in 1..Len(t) |-> t[i] \o " "]
      [] tier = "line" -> LET t == Split(text, "\n") IN [i \in 1..Len(t) |-> t[i] \o "\n"]

\* the tier a length selects under thresholds c and w
TierOf(L, c, w) == IF L <= c THEN "char" ELSE IF L <= w THEN "word" ELSE "line"

Occurrences(s, p) ==
    Cardinality({i \in 1..(Len(s) - Len(p) + 1) : SubSeq(s, i, i + Len(p) - 1) = p})

\* C15: when the category given to stream_response is PLACE_ORDER the final
\* text is the (possibly truncated) response followed by the ordering
\* disclaimer, once; for any other category, and for none, the final text is
\* the (possibly truncated) response with no disclaimer.
C15_FooterIffPlaceOrder ==
    final_text # None =>
        LET body == handle_product_truncation(streaming_service, s_response)
        IN  IF s_intent = "PLACE_ORDER"
            THEN /\ final_text = body \o FOOTER
                 /\ Occurrences(final_text, FOOTER) = 1
            ELSE /\ final_text = body
                 /\ Occurrences(final_text, FOOTER) = 0

C15_Witness ==
    /\ pc = "standalone"
    /\ Closed
    /\ ~disconnected
    /\ s_intent = "PLACE_ORDER"
    /\ StartsWith(s_response, MARKER)
    /\ Len(s_response) > Len(MARKER)
    /\ EndsWith(Concat(ContentChunks), FOOTER \o "\n")

\* execute_mcp_call was called in this turn and got an HTTP 200 with a JSON body
ExecutedOk ==
    /\ mcp_result # NoMcpResult
    /\ Len(replies) > 0
    /\ replies[Len(replies)].kind = "http"
    /\ replies[Len(replies)].status = 200
    /\ replies[Len(replies)].body.valid_json

ExecutedBody == replies[Len(replies)].body

\* the text a result object carries: structuredContent.result, else the text
\* of the first content item, else the object printed
ResultText(r) ==
    IF r.has_sc /\ r.sc_has_result THEN r.sc_result
    ELSE IF r.has_content /\ Len(r.content) > 0 /\ r.content[1].has_text
    THEN r.content[1].text
    ELSE ResultRepr(r)

ErrorFailure(body) ==
    Failure("Service temporarily unavailable: "
            \o (IF body.error_message = Missing THEN "Unknown MCP error"
                ELSE body.error_message)
            \o ". Please try again later.")

UnprocessableFailure ==
    Failure("Unable to process your request at this time. Please try again.")

FailedReply(reply) == reply.kind # "http" \/ reply.status # 200

\* the texts the verification step gives for a failed verify_customer_pin
VerificationFailures ==
    { "Unable to verify customer at this time. Please try again later.",
      "Unable to retrieve account information at this time.",
      "Unable to access account information. Please check your credentials." }
    \cup { "Customer verification failed (status " \o Digits(st)
             \o "). Please check your email and PIN." : st \in {401, 404, 429, 500} }

SharedFields_with_loop == {"langfuse_enabled", "confidence_threshold", "items", "idx"}

SharedFields == {"langfuse_enabled", "confidence_threshold"}

\* the locals of the running turn
SavedTurn ==
    [disconnected |-> disconnected,
     s_pc |-> s_pc,
     s_response |-> s_response,
     s_intent |-> s_intent,
     final_text |-> final_text,
     mode |-> mode,
     items |-> items,
     idx |-> idx,
     out |-> out,
     events |-> events,
     pc |-> pc,
     customer |-> customer,
     message |-> message,
     langfuse_enabled |-> langfuse_enabled,
     confidence_threshold |-> confidence_threshold,
     trace |-> trace,
     llm |-> llm,
     classify_raised |-> classify_raised,
     intent_result |-> intent_result,
     intent |-> intent,
     entities |-> entities,
     confidence |-> confidence,
     response |-> response,
     mcp_result |-> mcp_result,
     routed |-> routed,
     requests |-> requests,
     replies |-> replies,
     raised |-> raised]

\* the value a name has for the turn that resumes: its own saved one, or the
\* one it finds when the name is shared
Local(name, found, saved) == IF name \in SharedFields THEN found ELSE saved

\* the running turn is suspended at its await and the other one resumes
Switch ==
    /\ other # NoOther
    /\ other.pc # "done"
    /\ current' = 3 - current
    /\ other' = SavedTurn
    /\ disconnected' = Local("disconnected", disconnected, other.disconnected)
    /\ s_pc' = Local("s_pc", s_pc, other.s_pc)
    /\ s_response' = Local("s_response", s_response, other.s_response)
    /\ s_intent' = Local("s_intent", s_intent, other.s_intent)
    /\ final_text' = Local("final_text", final_text, other.final_text)
    /\ mode' = Local("mode", mode, other.mode)
    /\ items' = Local("items", items, other.items)
    /\ idx' = Local("idx", idx, other.idx)
    /\ out' = Local("out", out, other.out)
    /\ events' = Local("events", events, other.events)
    /\ pc' = Local("pc", pc, other.pc)
    /\ customer' = Local("customer", customer, other.customer)
    /\ message' = Local("message", message, other.message)
    /\ langfuse_enabled' = Local("langfuse_enabled", langfuse_enabled, other.langfuse_enabled)
    /\ confidence_threshold' = Local("confidence_threshold", confidence_threshold, other.confidence_threshold)
    /\ trace' = Local("trace", trace, other.trace)
    /\ llm' = Local("llm", llm, other.llm)
    /\ classify_raised' = Local("classify_raised", classify_raised, other.classify_raised)
    /\ intent_result' = Local("intent_result", intent_result, other.intent_result)
    /\ intent' = Local("intent", intent, other.intent)
    /\ entities' = Local("entities", entities, other.entities)
    /\ confidence' = Local("confidence", confidence, other.confidence)
    /\ response' = Local("response", response, other.response)
    /\ mcp_result' = Local("mcp_result", mcp_result, other.mcp_result)
    /\ routed' = Local("routed", routed, other.routed)
    /\ requests' = Local("requests", requests, other.requests)
    /\ replies' = Local("replies", replies, other.replies)
    /\ raised' = Local("raised", raised, other.raised)
    /\ UNCHANGED <<streaming_service, auth_vars, call_vars>>

TwoOutcomes ==
    { [kind |-> "not_json", value |-> NoResult],
      [kind |-> "json",
       value |-> JsonDict({"intent", "confidence", "entities"}, "GREETING", Number(50), <<>>)],
      [kind |-> "json",
       value |-> JsonDict({"intent", "confidence", "entities"}, "ORDER_STATUS",
                          Number(INTENT_CONFIDENCE_THRESHOLD + 1), <<>>)],
      [kind |-> "json",
       value |-> JsonDict({"intent", "confidence", "entities"}, "PLACE_ORDER",
                          Number(INTENT_CONFIDENCE_THRESHOLD + 1), <<"gaming", "laptop">>)] }

TwoReplies ==
    { Reply("timeout", 0, InvalidJson),
      Reply("http", 200, StructuredEnvelope(INFO_WITH_ID)),
      Reply("http", 200, StructuredEnvelope(MARKER \o CatalogBody)) }

InitTwo ==
    /\ InitTurnVars
    /\ customer = "donaldgarcia@example.net"
    /\ message = "Hi"
    /\ langfuse_enabled = FALSE
    /\ confidence_threshold = INTENT_CONFIDENCE_THRESHOLD
    /\ streaming_service = SmallService
    /\ disconnected = FALSE
    /\ s_pc = "idle"
    /\ IdleStreamVars
    /\ auth_request = NoAuth
    /\ auth_response = NoAuthResponse
    /\ current = 1
    /\ calls = <<>>
    /\ other = [SavedTurn EXCEPT !.customer = "guest", !.message = "thanks"]

NextTwo ==
    \/ Start
    \/ \E outcome \in TwoOutcomes : Classify(outcome)
    \/ Gate
    \/ \E reply \in TwoReplies : VerifyReply(reply)
    \/ \E reply \in TwoReplies : ExecuteReply(reply)
    \/ StreamBegin
    \/ Poll
    \/ Emit
    \/ EmitDone
    \/ TurnEnd
    \/ Switch

SpecTwo == InitTwo /\ [][NextTwo]_vars

\* what a turn with the inputs and the external answers of r hands to
\* stream_response when it runs alone, tracing disabled
AloneResponse(r) ==
    LET c == classify_intent(r.llm, None)
        simple == get_simple_response(r.message, r.customer)
        failed == [text |-> ERROR_RESPONSE, cat |-> None]
    IN  IF c.raised \/ ~c.result.is_dict THEN failed
        ELSE LET cat == ResultGet(c.result, "intent", "OTHER")
                 ents == ResultGet(c.result, "entities", <<>>)
                 branch == RouteBranch(cat, r.customer)
             IN  IF cat \notin ROUTED_INTENTS THEN [text |-> simple, cat |-> cat]
                 ELSE IF "confidence" \in c.result.keys /\ ~c.result.confidence_is_number
                 THEN failed
                 ELSE IF ~GateOpen(cat, ResultGet(c.result, "confidence", 50),
                                   r.confidence_threshold)
                 THEN [text |-> simple, cat |-> cat]
                 ELSE IF branch \in {"order_status", "account_info"}
                 THEN LET v == IF branch = "order_status"
                               THEN handle_order_status(r.replies[1])
                               ELSE handle_account_info(r.replies[1])
                      IN  IF v.direct_response # ""
                          THEN [text |-> v.direct_response, cat |-> cat]
                          ELSE IF v.tool_msg # NoMsg
                          THEN [text |-> execute_mcp_call(r.replies[2]).text, cat |-> cat]
                          ELSE [text |-> simple, cat |-> cat]
                 ELSE IF RouteBuild(branch, ents, r.message).raised
                 THEN [text |-> ROUTING_ERROR, cat |-> cat]
                 ELSE [text |-> execute_mcp_call(r.replies[1]).text, cat |-> cat]

\* the chunk sequence stream_response delivers for a final text to a consumer
\* that stays
AloneOut(text) ==
    TierChunks(TierOf(Len(text), streaming_service.char_threshold,
                      streaming_service.word_threshold), text) \o << DONE >>

IsPrefix(a, b) == Len(a) <= Len(b) /\ a = SubSeq(b, 1, Len(a))

\* r delivers what it delivers alone: stream_response is given the text and
\* the category of the turn run alone, paces the final text of that text, and
\* r has a prefix of its chunks while it streams and all of them when done
DeliversAsAlone(r) ==
    /\ r.s_pc = "idle" => r.out = <<>>
    /\ r.s_pc # "idle" =>
            /\ r.s_response = AloneResponse(r).text
            /\ r.s_intent = AloneResponse(r).cat
    /\ r.s_pc \notin {"idle", "begin"} =>
            /\ r.final_text = FinalText(streaming_service, r.s_response, r.s_intent)
            /\ IsPrefix(r.out, AloneOut(r.final_text))
    /\ r.pc = "done" => r.out = AloneOut(r.final_text)

\* C18: two chat turns run concurrently on the event loop; under every
\* interleaving of their classify, route, tool-call and chunk steps each turn
\* delivers the chunk sequence it delivers alone with the same inputs and the
\* same external answers; a turn that is suspended, in its pacing delay or at
\* any other await, does not keep the other from its next step.
C18_TurnsIndependent ==
    other # NoOther =>
        /\ DeliversAsAlone(SavedTurn)
        /\ DeliversAsAlone(other)
        /\ other.pc # "done" => ENABLED Switch

C18_Witness ==
    /\ other # NoOther
    /\ pc = "done"
    /\ Len(out) > 3
    /\ out = AloneOut(final_text)
    /\ other.s_pc = "poll"
    /\ Len(other.out) > 1
    /\ Len(other.requests) = 2
    /\ Len(requests) = 1

\* C19: every classification result that classify_intent returns and the
\* turn uses has a category that is one of the 8 fixed labels and a
\* confidence in [0,1], whatever the LLM produced.
C19_ResultWellFormed ==
    (intent # Unbound /\ ~classify_raised) =>
        /\ intent \in INTENT_CATEGORIES
        /\ confidence.is_number
        /\ confidence.value >= 0
        /\ confidence.value <= 100

\* the router was given SEARCH_PRODUCTS with terms that are all strings
SearchRouted ==
    /\ routed
    /\ intent = "SEARCH_PRODUCTS"
    /\ ~JoinRaises(entities)

\* C20: for SEARCH_PRODUCTS the router builds a search_products request;
\* its query is the terms joined by single spaces when there are terms
\* (gaming, laptop give "gaming laptop"), else the message without the
\* substrings "search" and "find", trimmed; the query is "monitor" whenever
\* that gives the empty text, so the query sent is never empty.
C20_SearchQuery ==
    SearchRouted =>
        /\ Len(requests) = 1
        /\ requests[1].name = "search_products"
        /\ DOMAIN requests[1].arguments = {"query"}
        /\ LET query == requests[1].arguments.query
               obtained == IF Len(entities) > 0 THEN Join(entities, " ")
                           ELSE Strip(Replace(Replace(message, "search", ""), "find", ""))
           IN  /\ query = (IF obtained = "" THEN "monitor" ELSE obtained)
               /\ query # ""
               /\ entities = << "gaming", "laptop" >> => query = "gaming laptop"
               /\ (entities = <<>> /\ message = "please find a laptop")
                    => query = "please  a laptop"
               /\ (entities = <<>> /\ message = "search find ") => query = "monitor"
               /\ entities = << "" >> => query = "monitor"
               /\ (entities = <<>> /\ message = "Hi") => query = "Hi"

C20_Witness ==
    /\ pc = "done"
    /\ SearchRouted
    /\ entities = <<>>
    /\ message = "search find "
    /\ requests[1].arguments.query = "monitor"
    /\ Len(replies) = 1
    /\ Len(out) > 1

\* the router took the ORDER_STATUS branch for a known customer and the reply
\* to verify_customer_pin has arrived
OrderStatusVerified ==
    /\ routed
    /\ intent = "ORDER_STATUS"
    /\ customer \in DOMAIN CUSTOMERS
    /\ Len(replies) >= 1

\* the reply is an HTTP 200 from which a non-empty info text is extracted
HasInfo(reply) ==
    /\ reply.kind = "http"
    /\ reply.status = 200
    /\ reply.body.valid_json
    /\ ~extract_customer_info(reply.body).raised
    /\ extract_customer_info(reply.body).value \notin {None, ""}

\* the info text of a reply that has one
InfoOf(reply) == extract_customer_info(reply.body).value

\* text contains "ID: " followed by a character of [a-f0-9-]
HasIdPattern(text) ==
    \E i \in 1..(Len(text) - 4) :
        SubSeq(text, i, i + 3) = "ID: " /\ Char(text, i + 4) \in HexDash

\* C21: for ORDER_STATUS with a known customer, when verification returns
\* HTTP 200 with an info text in which no "ID: <hex-with-dashes>" occurs, the
\* router returns no tool request and the direct response "Customer
\* verified: " followed by the first at most 200 characters of the info and
\* "...", and no second tool call is made in the turn.
C21_VerifiedWithoutId ==
    (OrderStatusVerified /\ HasInfo(replies[1]) /\ ~HasIdPattern(InfoOf(replies[1]))) =>
        LET info == InfoOf(replies[1])
            shown == IF Len(info) <= 200 THEN info ELSE SubSeq(info, 1, 200)
        IN  /\ Len(requests) = 1
            /\ requests[1].name = "verify_customer_pin"
            /\ Len(replies) = 1
            /\ mcp_result = NoMcpResult
            /\ response = "Customer verified: " \o shown \o "..."
            /\ Len(response) <= 222
            /\ pc \in {"streaming", "done"}
            /\ s_response = response

C21_Witness ==
    /\ pc = "done"
    /\ OrderStatusVerified
    /\ HasInfo(replies[1])
    /\ Len(InfoOf(replies[1])) > 200
    /\ ~HasIdPattern(InfoOf(replies[1]))
    /\ Len(response) = 222
    /\ Len(requests) = 1
    /\ Len(out) > 1

\* ------------------------------------------- get_simple_response on its own
MaxCalls == 2

SimpleMessages ==
    { "hello", "HELLO", "Hi", "hey there", "thanks", "THANKS", "Thank you", "bye",
      "Goodbye", "random message", "RANDOM MESSAGE", "this", "bye, thanks",
      "Bye, Thanks", "thanks, hi", "" }

SimpleCustomers == {"test@example.com", "guest"}

\* get_simple_response(m, c) is called and returns
SimpleCall(m, c) ==
    /\ Len(calls) < MaxCalls
    /\ calls' = Append(calls, [msg |-> m, customer |-> c,
                               result |-> get_simple_response(m, c)])
    /\ UNCHANGED <<stream_vars, turn_vars, auth_vars, sched_vars>>

InitSimple ==
    /\ StandaloneTurnVars
    /\ streaming_service = DefaultService
    /\ disconnected = FALSE
    /\ s_pc = "idle"
    /\ IdleStreamVars
    /\ auth_request = NoAuth
    /\ auth_response = NoAuthResponse
    /\ current = 1
    /\ other = NoOther
    /\ calls = <<>>

NextSimple == \E m \in SimpleMessages, c \in SimpleCustomers : SimpleCall(m, c)

SpecSimple == InitSimple /\ [][NextSimple]_vars

\* the two characters are the same letter in either case, or the same character
SameLetter(a, b) ==
    \/ a = b
    \/ \E k \in 1..26 :
         \/ a = Char(UpperLetters, k) /\ b = Char(LowerLetters, k)
         \/ a = Char(LowerLetters, k) /\ b = Char(UpperLetters, k)

\* the two texts differ in the case of their letters at most
SameButCase(a, b) ==
    Len(a) = Len(b) /\ \A i \in 1..Len(a) : SameLetter(Char(a, i), Char(b, i))

\* word, which is in lower case, occurs in text in some letter case
Mentions(text, word) ==
    \E i \in 1..(Len(text) - Len(word) + 1) :
        SameButCase(SubSeq(text, i, i + Len(word) - 1), word)

\* C22: get_simple_response is a function of (message, customer): every call
\* with the same inputs returns the same text.  A message that has "hello",
\* "hi" or "hey" in it gets the greeting with "Hello" and the customer id;
\* else one with "thank" the acknowledgment; else one with "bye" the
\* farewell; else the capability statement; messages that differ in letter
\* case only get the same text.
C22_SimpleResponse ==
    /\ \A i \in 1..Len(calls) :
         LET c == calls[i]
         IN  IF Mentions(c.msg, "hello") \/ Mentions(c.msg, "hi") \/ Mentions(c.msg, "hey")
             THEN /\ c.result = "Hello " \o c.customer
                                \o "! How can I help with your computer products today?"
                  /\ Contains(c.result, "Hello")
                  /\ Contains(c.result, c.customer)
             ELSE IF Mentions(c.msg, "thank")
             THEN c.result = "You're welcome! Is there anything else I can help you with?"
             ELSE IF Mentions(c.msg, "bye")
             THEN c.result = "Goodbye! Have a great day, and feel free to reach out if you need any help."
             ELSE c.result = "I can help with orders, products, warranties, and technical issues. What do you need?"
    /\ \A i, j \in 1..Len(calls) :
         (calls[i].customer = calls[j].customer /\ SameButCase(calls[i].msg, calls[j].msg))
            => calls[i].result = calls[j].result

C22_Witness ==
    /\ Len(calls) = 2
    /\ calls[1].msg = "bye, thanks"
    /\ calls[2].msg = "Bye, Thanks"
    /\ calls[1].customer = calls[2].customer
    /\ StartsWith(calls[2].result, "You're welcome")

\* id is what the pattern "ID: ([a-f0-9-]+)" captures in text: the longest
\* run of characters of [a-f0-9-] right after the first "ID: " that is
\* followed by such a character
IsMatchedId(text, id) ==
    /\ Len(id) > 0
    /\ \A k \in 1..Len(id) : Char(id, k) \in HexDash
    /\ \E i \in 1..(Len(text) - 4) :
         /\ SubSeq(text, i, i + 3 + Len(id)) = "ID: " \o id
         /\ (i + 3 + Len(id) = Len(text) \/ Char(text, i + 4 + Len(id)) \notin HexDash)
         /\ \A j \in 1..(i - 1) :
                ~(SubSeq(text, j, j + 3) = "ID: " /\ Char(text, j + 4) \in HexDash)

\* C23: in a two-step ORDER_STATUS turn the list_orders request is sent only
\* after the reply to verify_customer_pin has been received with status 200
\* and a customer id was matched in it, and its customer_id argument is
\* exactly that id; no content chunk of the turn is emitted before the last
\* tool response of the turn has been received.
C23_OrdersAfterVerification ==
    /\ \A i \in 1..Len(requests) : requests[i].name = "list_orders" =>
            /\ i = 2
            /\ requests[1].name = "verify_customer_pin"
            /\ Len(replies) >= 1
            /\ HasInfo(replies[1])
            /\ HasIdPattern(InfoOf(replies[1]))
            /\ DOMAIN requests[i].arguments = {"customer_id"}
            /\ IsMatchedId(InfoOf(replies[1]), requests[i].arguments.customer_id)
            /\ InfoOf(replies[1]) = INFO_WITH_ID
                    => requests[i].arguments.customer_id = "41c2903a-f1a5"
            /\ InfoOf(replies[1]) = INFO_TWO_IDS
                    => requests[i].arguments.customer_id = "ab12-cd34"
    /\ Len(replies) <= Len(requests)
    /\ Len(replies) < Len(requests) => (out = <<>> /\ events = <<>> /\ s_pc = "idle")
    /\ out # <<>> => (pc \in {"streaming", "done"} /\ Len(replies) = Len(requests))

C23_Witness ==
    /\ pc = "done"
    /\ intent = "ORDER_STATUS"
    /\ Len(requests) = 2
    /\ requests[2].name = "list_orders"
    /\ requests[2].arguments.customer_id = "ab12-cd34"
    /\ Len(replies) = 2
    /\ replies[2].kind = "http"
    /\ replies[2].status = 200
    /\ Len(out) > 2

\* the verification raised inside its try block: the post failed, the body
\* of a 200 is no JSON, or the first content item has no text
VerificationRaised(reply) ==
    \/ reply.kind # "http"
    \/ /\ reply.status = 200
       /\ \/ ~reply.body.valid_json
          \/ /\ reply.body.has_result
             /\ ~(reply.body.result.has_sc /\ reply.body.result.sc_has_result)
             /\ reply.body.result.has_content
             /\ Len(reply.body.result.content) > 0
             /\ ~reply.body.result.content[1].has_text

\* C24: for ORDER_STATUS with a known customer every failed verification
\* ends the routing with a direct error text and no tool request: a non-200
\* status gives "Customer verification failed (status <code>). Please check
\* your email and PIN.", a transport failure or an exception during the
\* verification gives "Unable to verify customer at this time. Please try
\* again later."; the two texts differ and no exception leaves the router.
C24_FailedVerification ==
    LET status_text(code) == "Customer verification failed (status " \o Digits(code)
                             \o "). Please check your email and PIN."
        unable_text == "Unable to verify customer at this time. Please try again later."
    IN  (OrderStatusVerified /\ (FailedReply(replies[1]) \/ VerificationRaised(replies[1]))) =>
            /\ Len(requests) = 1
            /\ Len(replies) = 1
            /\ mcp_result = NoMcpResult
            /\ pc \in {"streaming", "done"}
            /\ s_response = response
            /\ response \notin {ROUTING_ERROR, ERROR_RESPONSE, ""}
            /\ raised = None
            /\ IF VerificationRaised(replies[1])
               THEN response = unable_text
               ELSE /\ response = status_text(replies[1].status)
                    /\ response # unable_text
            /\ (replies[1].kind = "http" /\ replies[1].status = 404) =>
                 response = "Customer verification failed (status 404). Please check your email and PIN."

C24_Witness ==
    /\ pc = "done"
    /\ OrderStatusVerified
    /\ replies[1].kind = "http"
    /\ replies[1].status = 500
    /\ response = "Customer verification failed (status 500). Please check your email and PIN."
    /\ Len(out) > 1

\* the router took the ACCOUNT_INFO branch for a known customer
AccountInfoRouted ==
    /\ routed
    /\ intent = "ACCOUNT_INFO"
    /\ customer \in DOMAIN CUSTOMERS

\* the error texts of _handle_account_info
AccountErrors ==
    { "Unable to retrieve account information. Please contact support.",
      "Unable to access account information. Please check your credentials.",
      "Unable to retrieve account information at this time." }

\* C25: for ACCOUNT_INFO with a known customer the turn sends exactly one
\* request to the tool endpoint, verify_customer_pin with the customer's
\* email and the PIN of the table, and never a second one: the router
\* returns no tool request and a non-empty direct response, which is "Your
\* account information:", a newline and the extracted info on success, and
\* an error text on every failure.
C25_AccountInfoOneRequest ==
    AccountInfoRouted =>
        /\ Len(requests) = 1
        /\ requests[1].name = "verify_customer_pin"
        /\ requests[1].arguments = [email |-> customer, pin |-> CUSTOMERS[customer]]
        /\ customer = "donaldgarcia@example.net" => requests[1].arguments.pin = "7912"
        /\ mcp_result = NoMcpResult
        /\ Len(replies) <= 1
        /\ Len(replies) = 1 =>
             /\ pc \in {"streaming", "done"}
             /\ response # ""
             /\ s_response = response
             /\ IF HasInfo(replies[1])
                THEN response = "Your account information:\n" \o InfoOf(replies[1])
                ELSE response \in AccountErrors

C25_Witness ==
    /\ pc = "done"
    /\ AccountInfoRouted
    /\ Len(requests) = 1
    /\ Len(replies) = 1
    /\ HasInfo(replies[1])
    /\ HasIdPattern(InfoOf(replies[1]))
    /\ response = "Your account information:\n" \o INFO_WITH_ID
    /\ Len(out) > 1

\* the router took the PLACE_ORDER branch for a known customer
PlaceOrderRouted ==
    /\ routed
    /\ intent = "PLACE_ORDER"
    /\ customer \in DOMAIN CUSTOMERS

\* the text has a part of the preamble "Let me find '<terms>' for you so you
\* can place an order..."
HasPreamble(text) ==
    Contains(text, "Let me find") \/ Contains(text, "so you can place an order")

\* C26: for PLACE_ORDER with a known customer the router yields a tool
\* request for all terms that are strings: search_products with the joined
\* terms when there are terms, list_products with category "Monitors" when
\* there are none; and the preamble "Let me find ... so you can place an
\* order..." is in no text handed to the streaming stage and in no stream
\* delivered, whatever the tool call's outcome.
C26_PlaceOrderNoPreamble ==
    PlaceOrderRouted =>
        /\ ~JoinRaises(entities) =>
             /\ Len(requests) = 1
             /\ requests[1].id = 2
             /\ IF Len(entities) > 0
                THEN /\ requests[1].name = "search_products"
                     /\ requests[1].arguments = [query |-> Join(entities, " ")]
                ELSE /\ requests[1].name = "list_products"
                     /\ requests[1].arguments = [category |-> "Monitors"]
             /\ entities = << "gaming", "laptop" >>
                    => requests[1].arguments.query = "gaming laptop"
             /\ Len(replies) = 1 =>
                    /\ mcp_result = execute_mcp_call(replies[1])
                    /\ s_response = mcp_result.text
                    /\ ~HasPreamble(place_order_response(entities, replies[1]))
        /\ response # Unbound => ~HasPreamble(response)
        /\ s_response # Unbound => ~HasPreamble(s_response)
        /\ final_text # None => ~HasPreamble(final_text)
        /\ Closed => ~HasPreamble(Concat(out))

C26_Witness ==
    /\ pc = "done"
    /\ PlaceOrderRouted
    /\ entities = << "gaming", "laptop" >>
    /\ Len(replies) = 1
    /\ replies[1].kind = "timeout"
    /\ Closed
    /\ Len(out) > 1
    /\ HasPreamble(place_order_preamble(entities))

\* ------------------------------------------- route_intent_to_mcp on its own
RouteCategories == INTENT_CATEGORIES \cup {"BOGUS"}

RouteEntities == { <<>>, <<"gaming", "laptop">>, <<"Monitor">>, << NonStr >> }

RouteMessages == {"Hi", "search find "}

\* route_intent_to_mcp(cat, ents, msg, cust) is called: it returns, raises,
\* or awaits the reply to the verify_customer_pin it has posted
RouteCall(cat, ents, msg, cust) ==
    /\ calls = <<>>
    /\ LET branch == RouteBranch(cat, cust)
           call == [intent |-> cat, entities |-> ents, message |-> msg,
                    customer |-> cust, branch |-> branch]
       IN  IF branch \in {"order_status", "account_info"}
           THEN calls' = << [call |-> call, status |-> "awaiting",
                             posted |-> << verify_msg(cust) >>,
                             result |-> Route(NoMsg, "")] >>
           ELSE LET b == RouteBuild(branch, ents, msg)
                IN  calls' = << [call |-> call,
                                 status |-> IF b.raised THEN "raised" ELSE "returned",
                                 posted |-> <<>>,
                                 result |-> Route(b.tool_msg, "")] >>
    /\ UNCHANGED <<stream_vars, turn_vars, auth_vars, sched_vars>>

\* the awaited reply arrives and route_intent_to_mcp returns
RouteReturn(reply) ==
    /\ Len(calls) = 1
    /\ calls[1].status = "awaiting"
    /\ calls' = << [calls[1] EXCEPT
                      !.status = "returned",
                      !.result = IF calls[1].call.branch = "order_status"
                                 THEN handle_order_status(reply)
                                 ELSE handle_account_info(reply)] >>
    /\ UNCHANGED <<stream_vars, turn_vars, auth_vars, sched_vars>>

InitRoute ==
    /\ StandaloneTurnVars
    /\ streaming_service = DefaultService
    /\ disconnected = FALSE
    /\ s_pc = "idle"
    /\ IdleStreamVars
    /\ auth_request = NoAuth
    /\ auth_response = NoAuthResponse
    /\ current = 1
    /\ other = NoOther
    /\ calls = <<>>

NextRoute ==
    \/ \E cat \in RouteCategories, ents \in RouteEntities, msg \in RouteMessages,
          cust \in TurnCustomers : RouteCall(cat, ents, msg, cust)
    \/ \E reply \in HttpReplies : RouteReturn(reply)

SpecRoute == InitRoute /\ [][NextRoute]_vars

\* C27: whenever route_intent_to_mcp returns, for every category, every
\* customer and every verification outcome, it returns exactly one of a tool
\* request and a non-empty direct response: never both and never neither.
C27_ExactlyOneOutput ==
    \A i \in 1..Len(calls) : calls[i].status = "returned" =>
        LET has_tool == calls[i].result.tool_msg # NoMsg
            has_direct == calls[i].result.direct_response # ""
        IN  /\ has_tool \/ has_direct
            /\ ~(has_tool /\ has_direct)
            /\ has_tool => calls[i].result.tool_msg.name
                              \in {"search_products", "list_products", "list_orders"}

C27_Witness ==
    /\ Len(calls) = 1
    /\ calls[1].status = "returned"
    /\ calls[1].call.intent = "ORDER_STATUS"
    /\ calls[1].posted # <<>>
    /\ calls[1].result.tool_msg # NoMsg
    /\ calls[1].result.tool_msg.name = "list_orders"
    /\ calls[1].result.direct_response = ""

\* ------------------------------------------- the two text extractions
\* {"result": {"structuredContent": {}, "content": [{"text": text}]}}
BareStructuredEnvelope(text) ==
    [ContentEnvelope(text) EXCEPT !.result.has_sc = TRUE]

\* the JSON bodies both extractions are given: those of the replies of a
\* turn, one whose text is empty, and one whose structuredContent is empty
ExtractEnvelopes ==
    { r.body : r \in { h \in HttpReplies : h.kind = "http" /\ h.status = 200
                                            /\ h.body.valid_json } }
    \cup { ContentEnvelope(""), BareStructuredEnvelope(INFO_NO_ID) }

\* _extract_customer_info(env) and _process_success_response on a response
\* whose body is env are called
ExtractCall(env) ==
    /\ Len(calls) < MaxCalls
    /\ calls' = Append(calls, [envelope |-> env,
                               info |-> extract_customer_info(env),
                               outcome |-> process_success_response(env)])
    /\ UNCHANGED <<stream_vars, turn_vars, auth_vars, sched_vars>>

InitExtract ==
    /\ StandaloneTurnVars
    /\ streaming_service = DefaultService
    /\ disconnected = FALSE
    /\ s_pc = "idle"
    /\ IdleStreamVars
    /\ auth_request = NoAuth
    /\ auth_response = NoAuthResponse
    /\ current = 1
    /\ other = NoOther
    /\ calls = <<>>

NextExtract == \E env \in ExtractEnvelopes : ExtractCall(env)

SpecExtract == InitExtract /\ [][NextExtract]_vars

\* structuredContent.result if present, else content[0].text if present, else
\* the result object printed
SharedRule(r) ==
    IF r.has_sc /\ r.sc_has_result THEN r.sc_result
    ELSE IF r.has_content /\ Len(r.content) > 0 /\ r.content[1].has_text
    THEN r.content[1].text
    ELSE ResultRepr(r)

\* C28: text extraction is one rule shared by both paths: for every envelope
\* that carries a result, the text _extract_customer_info gives equals the
\* text execute_mcp_call returns as Content for the same envelope, namely
\* structuredContent.result if present, else content[0].text if present,
\* else the result printed; and the extraction is null only when the
\* envelope has no result key.
C28_SharedExtraction ==
    \A i \in 1..Len(calls) :
        LET c == calls[i]
        IN  IF c.envelope.has_result
            THEN /\ ~c.info.raised
                 /\ c.info.value # None
                 /\ c.outcome.key = "content"
                 /\ c.info.value = c.outcome.text
                 /\ c.info.value = SharedRule(c.envelope.result)
            ELSE /\ ~c.info.raised
                 /\ c.info.value = None

\* classify_intent failed inside and returned its fallback result
ClassificationFellBack ==
    /\ pc \notin {"start", "classify"}
    /\ llm.kind \in {"transport_error", "not_json"}
    /\ ~classify_raised
    /\ intent_result = [FALLBACK_RESULT EXCEPT !.intent = "OTHER", !.confidence = 50]

\* C29: a classification failure never causes a tool call: whenever
\* classify_intent returns its fallback result (OTHER, 0.5) the turn sends no
\* request to the tool endpoint and streams the simple pattern-based
\* response, for every configured confidence threshold, those below 0.5
\* included.
C29_FallbackNeverRoutes ==
    ClassificationFellBack =>
        LET simple == get_simple_response(message, customer)
            expected == TierChunks(TierOf(Len(simple), streaming_service.char_threshold,
                                          streaming_service.word_threshold), simple)
        IN  /\ intent = "OTHER"
            /\ confidence = Number(50)
            /\ ~routed
            /\ requests = <<>>
            /\ replies = <<>>
            /\ mcp_result = NoMcpResult
            /\ response = simple
            /\ pc \in {"gate", "streaming", "done"}
            /\ pc # "gate" => (s_response = simple /\ s_intent = "OTHER")
            /\ final_text # None => final_text = simple
            /\ IsPrefix(Delivered, expected)
            /\ (Closed /\ ~disconnected) => out = expected \o << DONE >>

C29_Witness ==
    /\ pc = "done"
    /\ ClassificationFellBack
    /\ confidence_threshold = LowThreshold
    /\ confidence.value > confidence_threshold
    /\ ~disconnected
    /\ out = << get_simple_response(message, customer) \o "\n", DONE >>
    /\ requests = <<>>

\* the PINs of the credential table
TablePins == { CUSTOMERS[e] : e \in DOMAIN CUSTOMERS }

\* the term names a monitor, a computer or a laptop, in any letter case
CategoryTerm(term) ==
    Mentions(term, "monitor") \/ Mentions(term, "computer") \/ Mentions(term, "laptop")

\* the category of the first term that names one, none when no term does
FirstTermCategory(ents) ==
    IF \E i \in 1..Len(ents) : CategoryTerm(ents[i])
    THEN LET first == CHOOSE i \in 1..Len(ents) :
                        CategoryTerm(ents[i]) /\ \A j \in 1..(i - 1) : ~CategoryTerm(ents[j])
         IN  IF Mentions(ents[first], "monitor") THEN "Monitors" ELSE "Computers"
    ELSE None

\* C30: for a customer id that is no key of the credential table no
\* verify_customer_pin request is ever sent and no PIN of the table is in an
\* outgoing request; a routed turn with category ORDER_STATUS, ACCOUNT_INFO
\* or PLACE_ORDER takes the default branch and sends a single list_products
\* request, whose category is "Monitors" if the first term that has
\* "monitor", "computer" or "laptop" in it (in any letter case) has
\* "monitor", "Computers" if it has "computer" or "laptop", and null if no
\* term has any of them.
C30_UnknownCustomerDefault ==
    customer \notin DOMAIN CUSTOMERS =>
        /\ \A i \in 1..Len(requests) :
             /\ requests[i].name # "verify_customer_pin"
             /\ "pin" \notin DOMAIN requests[i].arguments
             /\ \A k \in DOMAIN requests[i].arguments :
                    requests[i].arguments[k] \notin TablePins
        /\ (/\ routed
            /\ intent \in {"ORDER_STATUS", "ACCOUNT_INFO", "PLACE_ORDER"}
            /\ ~JoinRaises(entities)) =>
                /\ Len(requests) = 1
                /\ requests[1].name = "list_products"
                /\ DOMAIN requests[1].arguments = {"category"}
                /\ requests[1].arguments.category = FirstTermCategory(entities)
                /\ entities = <<>> => requests[1].arguments.category = None
                /\ entities = << "gaming", "laptop" >>
                        => requests[1].arguments.category = "Computers"
                /\ entities = << "cable", "Desktop Computer", "monitor" >>
                        => requests[1].arguments.category = "Computers"
                /\ entities = << "4K MONITOR", "laptop" >>
                        => requests[1].arguments.category = "Monitors"

C30_Witness ==
    /\ pc = "done"
    /\ customer \notin DOMAIN CUSTOMERS
    /\ routed
    /\ intent = "ORDER_STATUS"
    /\ entities = << "4K MONITOR", "laptop" >>
    /\ Len(requests) = 1
    /\ requests[1] = ToolMsg("list_products", [category |-> "Monitors"], 2)
    /\ Len(replies) = 1
    /\ Len(out) > 1

====
